---- MODULE Spec2Model ----
(***************************************************************************)
(* Model of the browser-automation extension:                              *)
(*   - executePlan, the sequential plan executor of the background worker  *)
(*     (tool-name resolution, argument normalisation, dispatch policy,     *)
(*     progress events, fail-fast loop);                                   *)
(*   - MCPBridge, the WebSocket JSON-RPC client (connection life cycle,    *)
(*     pending calls, timeouts, reconnect timer).                          *)
(*                                                                         *)
(* JavaScript values are encoded as strings: a JS string is itself, and    *)
(* the tokens below stand for undefined, null, true and false.  A JS       *)
(* object is a function from the keys it has to their values.              *)
(***************************************************************************)
EXTENDS Naturals, Sequences, FiniteSets, TLC

VARIABLES
    \* ---- one executePlan run ----
    plan,        \* the PlanStep array handed to executePlan
    tabId,       \* the tabId argument of the run (UNDEF when omitted)
    pc,          \* position of the run: "start", "loop", "await", "done", "rejected"
    index,       \* loop variable of executePlan (0-based)
    results,     \* the results array
    events,      \* LLM_PROGRESS messages sent by notifyPopup, in order
    warnings,    \* LLM_WARNING messages sent by notifyPopup, in order, each with
                 \* the step it carries, the iteration that sent it and the
                 \* number of backend invocations made before it
    calls,       \* backend invocations made by the run, in order
    replies,     \* what each awaited invocation yielded, in order
    inflight,    \* the invocation being awaited (NoCall when none)
    \* ---- the MCPBridge instance ----
    url,            \* this.url
    status,         \* this.status
    socket,         \* this.socket: a socket id, 0 for null
    sockets,        \* every WebSocket constructed so far: id -> readyState
    reconnectTimer, \* TRUE iff this.reconnectTimer holds a timeout handle
    reconnectTimeouts, \* number of reconnect timeouts set and neither fired nor cleared
    nextId,         \* this.nextId
    pending,        \* keys of this.pending
    timers,         \* ids whose request timeout is armed
    settled,        \* per callTool invocation: the outcomes delivered to it
    sent,           \* per socket: ids of the request frames sent on it
    notified,       \* frames handed to notification listeners by the last handler
    trace,          \* status broadcasts, settlements and socket constructions of
                    \* the last handler, in program order
    \* ---- the WebSocketServerTransport instance ----
    wss,            \* TRUE iff this.wss holds a server
    serverSocket,   \* this.socket of the transport: a client id, 0 for undefined
    clients,        \* every client connection accepted so far: id -> readyState
    outbox,         \* frames handed to a client socket's send(), in order
    sendResults,    \* per send() call: how its promise settled
    handed,         \* what the message listeners handed to onmessage / onerror
    oncloseCalls,   \* number of times this.onclose was called
    \* ---- one MCPClient.handleAction call ----
    clientAction,   \* the argument of the call
    clientPc,       \* where the call is: idle, called, the await it is parked at, settled
    targetTabId,    \* the tab waitForTabLoad is waiting for (UNDEF: none)
    clientResult,   \* how the promise of the call settled
    \* ---- one CONTENT_ACTION in the content script, and its page ----
    contentType,    \* request.payload.type
    readyState,     \* document.readyState
    matches,        \* TRUE iff document.querySelector(selector) finds an element now
    hasValue,       \* TRUE iff the elements the selector finds have a value member
    contentPc,      \* where the action is: idle, received, unready, waiting, responded
    resolved,       \* the flag `resolved` of waitForElement
    observer,       \* TRUE iff the MutationObserver is connected
    pollId,         \* TRUE iff the interval is set
    timeoutId,      \* TRUE iff the timeout is set
    elapsed,        \* poll periods since the interval and the timeout were set
    resolutions,    \* number of times the promise of waitForElement was resolved
    responses       \* the objects passed to sendResponse, in order

execVars == <<plan, tabId, pc, index, results, events, warnings, calls, replies,
             inflight>>
bridgeVars == <<url, socket, sockets, reconnectTimer, reconnectTimeouts, nextId,
                pending, timers,
                settled, sent, notified, trace>>
transportVars == <<wss, serverSocket, clients, outbox, sendResults, handed, oncloseCalls>>
clientVars == <<clientAction, clientPc, targetTabId, clientResult>>
contentVars == <<contentType, readyState, matches, hasValue, contentPc, resolved,
                observer, pollId, timeoutId, elapsed, resolutions, responses>>
auxVars == <<transportVars, clientVars, contentVars>>
vars == <<execVars, status, bridgeVars, auxVars>>

(***************************************************************************)
(* JavaScript values                                                       *)
(***************************************************************************)
UNDEF == "#undefined"
JNull == "#null"
JTrue == "#true"
JFalse == "#false"

\* !v
Falsy(v) == v \in {UNDEF, JNull, JFalse, ""}
Truthy(v) == ~Falsy(v)
\* v === undefined || v === null
Nullish(v) == v \in {UNDEF, JNull}

\* typeof v === 'number': the numbers of the model are these digit strings
Numbers == {"5", "7", "9"}
IsNumber(v) == v \in Numbers
\* `${v}`
JSString(v) ==
    IF v = UNDEF THEN "undefined"
    ELSE IF v = JNull THEN "null"
    ELSE IF v = JTrue THEN "true"
    ELSE IF v = JFalse THEN "false"
    ELSE v

EmptyObj == [k \in {} |-> UNDEF]
\* o[k]
Get(o, k) == IF k \in DOMAIN o THEN o[k] ELSE UNDEF
\* o[k] = v
Put(o, k, v) == [x \in (DOMAIN o) \cup {k} |-> IF x = k THEN v ELSE o[x]]
\* {...a, ...b}
Spread(a, b) == [x \in (DOMAIN a) \cup (DOMAIN b) |-> IF x \in DOMAIN b THEN b[x] ELSE a[x]]

\* a || b || ... : the first truthy operand, else the last one
RECURSIVE OrChain(_)
OrChain(vs) ==
    IF Len(vs) = 1 THEN vs[1]
    ELSE IF Truthy(vs[1]) THEN vs[1] ELSE OrChain(Tail(vs))

\* a ?? b ?? ... : the first operand that is neither null nor undefined, else the last
RECURSIVE NullishChain(_)
NullishChain(vs) ==
    IF Len(vs) = 1 THEN vs[1]
    ELSE IF ~Nullish(vs[1]) THEN vs[1] ELSE NullishChain(Tail(vs))

UpperCase == [A |-> "a", B |-> "b", C |-> "c", D |-> "d", E |-> "e", F |-> "f",
              G |-> "g", H |-> "h", I |-> "i", J |-> "j", K |-> "k", L |-> "l",
              M |-> "m", N |-> "n", O |-> "o", P |-> "p", Q |-> "q", R |-> "r",
              S |-> "s", T |-> "t", U |-> "u", V |-> "v", W |-> "w", X |-> "x",
              Y |-> "y", Z |-> "z"]

\* s.toLowerCase()
RECURSIVE ToLowerCase(_)
ToLowerCase(s) ==
    IF Len(s) = 0 THEN ""
    ELSE LET c == SubSeq(s, 1, 1)
         IN (IF c \in DOMAIN UpperCase THEN UpperCase[c] ELSE c)
                \o ToLowerCase(SubSeq(s, 2, Len(s)))

\* s.startsWith(p)
StartsWith(s, p) == Len(s) >= Len(p) /\ SubSeq(s, 1, Len(p)) = p
\* s.includes(p)
Includes(s, p) ==
    \E i \in 1..Len(s) : i + Len(p) - 1 <= Len(s) /\ SubSeq(s, i, i + Len(p) - 1) = p

(***************************************************************************)
(* PlanStep.  `top` holds the scalar fields written at the step's top      *)
(* level, `params` those of step.params (hasParams = FALSE: the step has   *)
(* no params object); topBags and paramBags hold the object-valued fields  *)
(* arguments / args / tool_params / toolParams of the two levels.          *)
(***************************************************************************)
MkStep(type, hasParams, top, params, topBags, paramBags) ==
    [type |-> type, hasParams |-> hasParams, top |-> top, params |-> params,
     topBags |-> topBags, paramBags |-> paramBags]

\* const mergedParams = step?.params && typeof step.params === 'object' ? step.params : {}
MergedParams(step) == IF step.hasParams THEN step.params ELSE EmptyObj
MergedBags(step) == IF step.hasParams THEN step.paramBags ELSE EmptyObj

IsString(v) == v \notin {UNDEF, JNull, JTrue, JFalse}

\* let toolName = mergedParams.tool || ... || step.tool_name
ToolNameOf(step) ==
    LET mp == MergedParams(step)
    IN OrChain(<<Get(mp, "tool"), Get(mp, "toolName"), Get(mp, "tool_name"),
                 Get(mp, "name"), Get(step.top, "tool"), Get(step.top, "toolName"),
                 Get(step.top, "tool_name")>>)

\* Faulty variant: a url is looked at before a selector.
InferToolUrlFirst(step) ==
    LET mp == MergedParams(step)
    IN IF Truthy(Get(mp, "url")) THEN
           [name |-> "navigate_page", args |-> [type |-> "url", url |-> mp["url"]]]
       ELSE IF Truthy(Get(mp, "selector")) THEN
           IF Get(mp, "value") # UNDEF
           THEN [name |-> "extension_fill_selector",
                 args |-> [selector |-> mp["selector"], value |-> mp["value"]]]
           ELSE [name |-> "extension_click_selector",
                 args |-> [selector |-> mp["selector"]]]
       ELSE IF Truthy(Get(mp, "code")) THEN
           [name |-> "extension_evaluate_script", args |-> [code |-> mp["code"]]]
       ELSE IF Truthy(Get(mp, "text")) /\ IsString(Get(mp, "text")) THEN
           [name |-> "extension_fill_selector",
            args |-> [selector |-> NullishChain(<<Get(mp, "selector"), "input">>),
                      value |-> mp["text"]]]
       ELSE [name |-> UNDEF, args |-> EmptyObj]

\* Inference of a tool from the parameter shape; name = UNDEF when none applies.
InferTool(step) ==
    LET mp == MergedParams(step)
    IN IF Truthy(Get(mp, "selector")) THEN
           IF Get(mp, "value") # UNDEF
           THEN [name |-> "extension_fill_selector",
                 args |-> [selector |-> mp["selector"], value |-> mp["value"]]]
           ELSE [name |-> "extension_click_selector",
                 args |-> [selector |-> mp["selector"]]]
       ELSE IF Truthy(Get(mp, "url")) THEN
           [name |-> "navigate_page", args |-> [type |-> "url", url |-> mp["url"]]]
       ELSE IF Truthy(Get(mp, "code")) THEN
           [name |-> "extension_evaluate_script", args |-> [code |-> mp["code"]]]
       ELSE IF Truthy(Get(mp, "text")) /\ IsString(Get(mp, "text")) THEN
           [name |-> "extension_fill_selector",
            args |-> [selector |-> NullishChain(<<Get(mp, "selector"), "input">>),
                      value |-> mp["text"]]]
       ELSE [name |-> UNDEF, args |-> EmptyObj]

\* The argument bag the code picks when the tool was named explicitly:
\* src says which object it is ("params"/"top": a bag of the step itself,
\* "fresh": the literal {}).
SelectArgs(step) ==
    LET pb == MergedBags(step)
        tb == step.topBags
        pick(src, slot) == [src |-> src, slot |-> slot,
                            obj |-> IF src = "params" THEN pb[slot] ELSE tb[slot]]
    IN IF "arguments" \in DOMAIN pb THEN pick("params", "arguments")
       ELSE IF "tool_params" \in DOMAIN pb THEN pick("params", "tool_params")
       ELSE IF "toolParams" \in DOMAIN pb THEN pick("params", "toolParams")
       ELSE IF "args" \in DOMAIN pb THEN pick("params", "args")
       ELSE IF "arguments" \in DOMAIN tb THEN pick("top", "arguments")
       ELSE IF "args" \in DOMAIN tb THEN pick("top", "args")
       ELSE IF "tool_params" \in DOMAIN tb THEN pick("top", "tool_params")
       ELSE IF "toolParams" \in DOMAIN tb THEN pick("top", "toolParams")
       ELSE [src |-> "fresh", slot |-> "", obj |-> EmptyObj]

\* The two branches that follow "pull common fields through": an empty bag
\* is rebuilt by spreading (a new object), a non-empty one is written in place.
NormalizeArgs(step, sel) ==
    LET mp == MergedParams(step)
        pb == MergedBags(step)
        top == step.top
        setIf(o, k, v) == IF Truthy(v) THEN Put(o, k, v) ELSE o
    IN IF DOMAIN sel.obj = {} THEN
           LET a1 == setIf(sel.obj, "url", Get(top, "url"))
               a2 == setIf(a1, "url", Get(mp, "url"))
               a3 == setIf(a2, "selector", Get(top, "selector"))
               a4 == setIf(a3, "value", Get(top, "value"))
               a5 == setIf(a4, "code", Get(top, "code"))
               a6 == IF "tool_params" \in DOMAIN step.topBags
                     THEN Spread(a5, step.topBags["tool_params"]) ELSE a5
               a7 == IF "tool_params" \in DOMAIN pb
                     THEN Spread(a6, pb["tool_params"]) ELSE a6
           IN [args |-> a7, written |-> FALSE]
       ELSE
           LET a1 == setIf(sel.obj, "url", Get(top, "url"))
               a2 == setIf(a1, "url", Get(mp, "url"))
           IN [args |-> a2, written |-> a2 # sel.obj]

\* The step as the run leaves it: an in-place write to an argument bag that
\* belongs to the step is visible in the plan.
StepAfter(step, sel, norm) ==
    IF ~norm.written \/ sel.src = "fresh" THEN step
    ELSE IF sel.src = "params"
         THEN [step EXCEPT !.paramBags = Put(step.paramBags, sel.slot, norm.args)]
         ELSE [step EXCEPT !.topBags = Put(step.topBags, sel.slot, norm.args)]

\* Faulty variant: an inferred tool name is stored in the step's params.
ResolveKeepsInferredName(step) ==
    LET named == ToolNameOf(step)
        inf == InferTool(step)
    IN IF Falsy(named) /\ inf.name = UNDEF THEN
           [error |-> "call-tool-missing-name", toolName |-> UNDEF,
            toolArgs |-> EmptyObj, inferred |-> UNDEF, step |-> step]
       ELSE
           LET sel == IF Falsy(named)
                      THEN [src |-> "fresh", slot |-> "", obj |-> inf.args]
                      ELSE SelectArgs(step)
               norm == NormalizeArgs(step, sel)
           IN [error |-> UNDEF,
               toolName |-> IF Falsy(named) THEN inf.name ELSE named,
               toolArgs |-> norm.args,
               inferred |-> IF Falsy(named) THEN inf.name ELSE UNDEF,
               step |-> IF Falsy(named)
                        THEN [step EXCEPT !.hasParams = TRUE,
                                          !.params = Put(MergedParams(step), "tool", inf.name)]
                        ELSE StepAfter(step, sel, norm)]

\* Lines 219-317 for a CALL_TOOL step: tool name, arguments, whether the name
\* was inferred, and the step afterwards.  error # UNDEF: resolution threw.
Resolve(step) ==
    LET named == ToolNameOf(step)
        inf == InferTool(step)
    IN IF Falsy(named) /\ inf.name = UNDEF THEN
           [error |-> "call-tool-missing-name", toolName |-> UNDEF,
            toolArgs |-> EmptyObj, inferred |-> UNDEF, step |-> step]
       ELSE
           LET sel == IF Falsy(named)
                      THEN [src |-> "fresh", slot |-> "", obj |-> inf.args]
                      ELSE SelectArgs(step)
               norm == NormalizeArgs(step, sel)
           IN [error |-> UNDEF,
               toolName |-> IF Falsy(named) THEN inf.name ELSE named,
               toolArgs |-> norm.args,
               inferred |-> IF Falsy(named) THEN inf.name ELSE UNDEF,
               step |-> StepAfter(step, sel, norm)]

(***************************************************************************)
(* Dispatch policy.  A decision is what the step does next:                *)
(*   kind "throw"  : an Error(error) is thrown before any backend is used; *)
(*   kind "local"  : mcp.handleAction(action) is awaited;                  *)
(*   kind "bridge" : remoteMcp.callTool(tool, args) is awaited;            *)
(*   kind "tabs"   : buildLocalPagesSummary (chrome.tabs.query) is awaited.*)
(* warn lists the LLM_WARNING messages sent on the way.                    *)
(***************************************************************************)
\* notifyPopup('LLM_WARNING', { message, inferredTool?, ... })
Warn(message, inferredTool) == [message |-> message, inferredTool |-> inferredTool]

Throw(error, warn) ==
    [kind |-> "throw", error |-> error, action |-> EmptyObj, tool |-> UNDEF,
     args |-> EmptyObj, warn |-> warn]
Local(action) ==
    [kind |-> "local", error |-> UNDEF, action |-> action, tool |-> UNDEF,
     args |-> EmptyObj, warn |-> <<>>]
Bridge(tool, args) ==
    [kind |-> "bridge", error |-> UNDEF, action |-> EmptyObj, tool |-> tool,
     args |-> args, warn |-> <<>>]
Tabs ==
    [kind |-> "tabs", error |-> UNDEF, action |-> EmptyObj, tool |-> "list_pages",
     args |-> EmptyObj, warn |-> <<>>]

\* isConnected()
IsConnected(st) == st = "connected"

\* const extract = (k) => toolArgs && toolArgs[k] !== undefined ? toolArgs[k]
\*                                  : step[k] ?? mergedParams[k]
Extract(step, toolArgs, k) ==
    IF Get(toolArgs, k) # UNDEF THEN toolArgs[k]
    ELSE NullishChain(<<Get(step.top, k), Get(MergedParams(step), k)>>)

\* Faulty variant: the call is made without looking at the bridge status.
ForwardUnchecked(toolName, toolArgs, st) == Bridge(toolName, toolArgs)

\* if (!remoteMcp.isConnected()) throw ...; await remoteMcp.callTool(toolName, toolArgs)
Forward(toolName, toolArgs, st) ==
    IF ~IsConnected(st) THEN Throw("mcp-bridge-not-connected", <<>>)
    ELSE Bridge(toolName, toolArgs)

\* Faulty variant: the forced-new test comes before the url test.
NewPageForceFirst(step, toolArgs, tab, st) ==
    LET u == Extract(step, toolArgs, "url")
        forceNew == Truthy(Extract(step, toolArgs, "forceNew"))
                        \/ Truthy(Extract(step, toolArgs, "force_new"))
    IN IF forceNew /\ IsConnected(st) THEN Bridge("new_page", toolArgs)
       ELSE IF Falsy(u) THEN
           Throw("blocked-new-page-without-url",
                 <<Warn("Blocked request to open a new page without URL.", UNDEF)>>)
       ELSE Local([type |-> "NAVIGATE", url |-> u, tabId |-> tab])

\* Faulty variant: a forced new_page falls back to the tab when the bridge is off.
NewPageDowngradeWhenOff(step, toolArgs, tab, st) ==
    LET u == Extract(step, toolArgs, "url")
        forceNew == Truthy(Extract(step, toolArgs, "forceNew"))
                        \/ Truthy(Extract(step, toolArgs, "force_new"))
    IN IF Falsy(u) THEN
           Throw("blocked-new-page-without-url",
                 <<Warn("Blocked request to open a new page without URL.", UNDEF)>>)
       ELSE IF forceNew /\ IsConnected(st) THEN Bridge("new_page", toolArgs)
       ELSE Local([type |-> "NAVIGATE", url |-> u, tabId |-> tab])

\* Faulty variant: any new_page with a url goes to the bridge when it is connected.
NewPagePreferBridge(step, toolArgs, tab, st) ==
    LET u == Extract(step, toolArgs, "url")
    IN IF Falsy(u) THEN
           Throw("blocked-new-page-without-url",
                 <<Warn("Blocked request to open a new page without URL.", UNDEF)>>)
       ELSE IF IsConnected(st) THEN Bridge("new_page", toolArgs)
       ELSE Local([type |-> "NAVIGATE", url |-> u, tabId |-> tab])

\* lname === 'new_page'
NewPage(step, toolArgs, tab, st) ==
    LET u == Extract(step, toolArgs, "url")
        forceNew == Truthy(Extract(step, toolArgs, "forceNew"))
                        \/ Truthy(Extract(step, toolArgs, "force_new"))
    IN IF Falsy(u) THEN
           Throw("blocked-new-page-without-url",
                 <<Warn("Blocked request to open a new page without URL.", UNDEF)>>)
       ELSE IF forceNew THEN
           IF ~IsConnected(st)
           THEN Throw("blocked-new-page-force-new-bridge-off",
                      <<Warn("Attempted force-new but MCP bridge not connected; blocked.",
                             UNDEF)>>)
           ELSE Bridge("new_page", toolArgs)
       ELSE Local([type |-> "NAVIGATE", url |-> u, tabId |-> tab])

\* select_page / extension_*select_page*
SelectPage(step, toolArgs, tab) ==
    LET u == NullishChain(<<Extract(step, toolArgs, "url"),
                            Extract(step, toolArgs, "pageUrl"),
                            Extract(step, toolArgs, "page")>>)
    IN IF Falsy(u) THEN Throw("select-page-missing-url", <<>>)
       ELSE Local([type |-> "NAVIGATE", url |-> u, tabId |-> tab])

\* if (isPagesTool) { ... }
PagesTool(step, lname, toolName, toolArgs, tab, st) ==
    IF lname = "new_page" THEN NewPage(step, toolArgs, tab, st)
    ELSE IF lname \in {"navigate_page", "pages_navigate", "pages_navigate_page"} THEN
        LET u == Extract(step, toolArgs, "url")
        IN IF Falsy(u) THEN Throw("navigate-missing-url", <<>>)
           ELSE Local([type |-> "NAVIGATE", url |-> u, tabId |-> tab])
    ELSE IF lname = "list_pages" THEN Tabs
    ELSE IF lname \in {"select_page", "extension_select_page"} THEN
        SelectPage(step, toolArgs, tab)
    ELSE Forward(toolName, toolArgs, st)

\* Faulty variant: the tool name alone selects the local action.
ExtensionToolByName(step, lname, toolName, toolArgs, tab, st) ==
    LET ex(k) == Extract(step, toolArgs, k)
    IN IF Includes(lname, "click") THEN
           Local([type |-> "CLICK", selector |-> ex("selector"), tabId |-> tab])
       ELSE IF Includes(lname, "fill") THEN
           Local([type |-> "FILL", selector |-> ex("selector"),
                  value |-> NullishChain(<<ex("value"), ex("text"), ex("v")>>),
                  tabId |-> tab])
       ELSE IF Includes(lname, "evaluate") THEN
           Local([type |-> "EVALUATE_SCRIPT", code |-> ex("code"), tabId |-> tab])
       ELSE IF Includes(lname, "select_page") THEN SelectPage(step, toolArgs, tab)
       ELSE Forward(toolName, toolArgs, st)

\* else if (isExtensionTool) { ... }
ExtensionTool(step, lname, toolName, toolArgs, tab, st) ==
    LET ex(k) == Extract(step, toolArgs, k)
    IN IF Includes(lname, "click") /\ Truthy(ex("selector")) THEN
           Local([type |-> "CLICK", selector |-> ex("selector"), tabId |-> tab])
       ELSE IF Includes(lname, "fill") /\ Truthy(ex("selector")) THEN
           Local([type |-> "FILL", selector |-> ex("selector"),
                  value |-> NullishChain(<<ex("value"), ex("text"), ex("v")>>),
                  tabId |-> tab])
       ELSE IF Includes(lname, "evaluate") /\ Truthy(ex("code")) THEN
           Local([type |-> "EVALUATE_SCRIPT", code |-> ex("code"), tabId |-> tab])
       ELSE IF Includes(lname, "select_page") THEN SelectPage(step, toolArgs, tab)
       ELSE Forward(toolName, toolArgs, st)

\* Lines 339-418: the sink of a resolved CALL_TOOL step.
DispatchTool(step, toolName, toolArgs, tab, st) ==
    LET lname == ToLowerCase(toolName)
        isExtensionTool == StartsWith(lname, "extension_")
        isPagesTool == StartsWith(lname, "pages_")
                         \/ lname \in {"new_page", "navigate_page", "list_pages", "select_page"}
    IN IF isPagesTool THEN PagesTool(step, lname, toolName, toolArgs, tab, st)
       ELSE IF isExtensionTool THEN ExtensionTool(step, lname, toolName, toolArgs, tab, st)
       ELSE Forward(toolName, toolArgs, st)

\* Faulty variant: the params are spread last, over type and tabId.
PrimitiveParamsLast(step, tab) ==
    Local(Spread([type |-> step.type, tabId |-> tab], MergedParams(step)))

\* mcp.handleAction({ ...mergedParams, type: step.type, tabId })
Primitive(step, tab) ==
    Local(Put(Put(MergedParams(step), "type", step.type), "tabId", tab))

\* Faulty variant: an inferred tool is used without a warning.
DecideSilent(step, tab, st) ==
    IF step.type = "CALL_TOOL" THEN
        LET r == Resolve(step)
        IN IF r.error # UNDEF THEN Throw(r.error, <<>>)
           ELSE DispatchTool(step, r.toolName, r.toolArgs, tab, st)
    ELSE Primitive(step, tab)

\* The body of the try block up to the first await, for one step.
Decide(step, tab, st) ==
    IF step.type = "CALL_TOOL" THEN
        LET r == Resolve(step)
        IN IF r.error # UNDEF THEN Throw(r.error, <<>>)
           ELSE LET d == DispatchTool(step, r.toolName, r.toolArgs, tab, st)
                    w == IF r.inferred # UNDEF
                         THEN <<Warn("CALL_TOOL missing tool name - inferring tool", r.inferred)>>
                         ELSE <<>>
                IN [d EXCEPT !.warn = w \o d.warn]
    ELSE Primitive(step, tab)

(***************************************************************************)
(* The collaborators' answers.  A reply is what an awaited call yields:    *)
(* a returned value (defined = FALSE: undefined) or a thrown Error.  The   *)
(* scalar members of a returned object are in `value`; `content` holds its *)
(* content array (empty when the member is absent or not an array), one    *)
(* record per part with the part's text (UNDEF: the part has no text).     *)
(***************************************************************************)
ReturnContent(value, content) ==
    [kind |-> "return", defined |-> TRUE, value |-> value, content |-> content,
     error |-> UNDEF]
Return(value) == ReturnContent(value, <<>>)
ReturnUndefined ==
    [kind |-> "return", defined |-> FALSE, value |-> EmptyObj, content |-> <<>>,
     error |-> UNDEF]
Reject(error) ==
    [kind |-> "throw", defined |-> FALSE, value |-> EmptyObj, content |-> <<>>,
     error |-> error]

\* { type: 'text', text } and a part without text (an image)
TextPart(text) == [text |-> text]
ImagePart == [text |-> UNDEF]

\* What chrome.* and the content script can do to one handleAction call.
ChromeBehaviours ==
    {"ok", "api-error", "navigation-timeout", "selector-not-found",
     "unsupported-element", "script-error"}

\* MCPClient.handleAction in one step: the result object for `action` when
\* the browser behaves as `env`.  The step-by-step model of the method is
\* below (ClientSpec); SummaryAgrees relates the two.
HandleAction(action, env) ==
    LET type == Get(action, "type")
        failure(e) == Return([success |-> JFalse, error |-> e])
        content(refusals) ==
            IF ~IsNumber(Get(action, "tabId")) THEN failure("tab-id-required")
            ELSE IF env = "navigation-timeout" THEN failure("navigation-timeout")
            ELSE IF env = "api-error" THEN failure("chrome-last-error")
            ELSE IF env \in refusals THEN failure(env)
            ELSE Return([success |-> JTrue])
    IN IF type = "NAVIGATE" THEN
           IF env = "api-error" THEN failure("chrome-api-error")
           ELSE Return([success |-> JTrue])
       ELSE IF type = "CLICK" THEN content({"selector-not-found"})
       ELSE IF type = "FILL" THEN content({"selector-not-found", "unsupported-element"})
       ELSE IF type = "EVALUATE_SCRIPT" THEN content({"script-error"})
       ELSE IF type = "TAKE_SCREENSHOT" THEN
           IF env = "api-error" THEN failure("chrome-api-error")
           ELSE Return([success |-> JTrue, dataUrl |-> "data:image/png"])
       ELSE failure("unknown-action:" \o JSString(type))

\* What awaiting remoteMcp.callTool can yield to the executor.
BridgeReplies ==
    {ReturnContent(EmptyObj, <<TextPart("done")>>),
     ReturnUndefined,
     ReturnContent([isError |-> JTrue, error |-> "err-field", message |-> "msg-field"],
                   <<ImagePart, TextPart("tool-said-no"), TextPart("more")>>),
     ReturnContent([isError |-> JTrue, error |-> "err-field"],
                   <<TextPart(""), TextPart("more")>>),
     ReturnContent([isError |-> JTrue, message |-> "msg-field"], <<ImagePart>>),
     Return([isError |-> JTrue]),
     Return([success |-> JFalse, error |-> "err-field"]),
     Reject("mcp-timeout"),
     Reject("mcp-disconnected"),
     Reject("remote-error")}

\* What awaiting buildLocalPagesSummary yields: the listing, or chrome.tabs.query throws.
TabsReplies ==
    {ReturnContent(EmptyObj, <<TextPart("# list_pages response")>>),
     Reject("chrome-api-error")}

\* Every answer the awaited invocation `call` can get.
Replies(call) ==
    IF call.kind = "local" THEN {HandleAction(call.action, env) : env \in ChromeBehaviours}
    ELSE IF call.kind = "bridge" THEN BridgeReplies
    ELSE TabsReplies

\* content.find((part) => part && typeof part.text === 'string')?.text
MessageFromContent(content) ==
    LET texts == SelectSeq(content, LAMBDA part : IsString(part.text))
    IN IF texts = <<>> THEN UNDEF ELSE texts[1].text

\* Faulty variant: the error field is preferred to the content text.
JudgeErrorFieldFirst(type, reply) ==
    IF reply.kind = "throw" THEN [ok |-> FALSE, error |-> reply.error]
    ELSE IF type = "CALL_TOOL" /\ reply.defined
            /\ (Truthy(Get(reply.value, "isError")) \/ Get(reply.value, "success") = JFalse)
    THEN [ok |-> FALSE,
          error |-> OrChain(<<Get(reply.value, "error"), MessageFromContent(reply.content),
                              Get(reply.value, "message"), "CALL_TOOL failed">>)]
    ELSE [ok |-> TRUE, error |-> UNDEF]

\* Lines 419-429: what the try block makes of the awaited reply.  Only the
\* CALL_TOOL branch inspects the result for an error flag.
Judge(type, reply) ==
    IF reply.kind = "throw" THEN [ok |-> FALSE, error |-> reply.error]
    ELSE IF type = "CALL_TOOL" /\ reply.defined
            /\ (Truthy(Get(reply.value, "isError")) \/ Get(reply.value, "success") = JFalse)
    THEN [ok |-> FALSE,
          error |-> OrChain(<<MessageFromContent(reply.content), Get(reply.value, "error"),
                              Get(reply.value, "message"), "CALL_TOOL failed">>)]
    ELSE [ok |-> TRUE, error |-> UNDEF]

(***************************************************************************)
(* executePlan                                                             *)
(***************************************************************************)
NoCall == [kind |-> "none", error |-> UNDEF, action |-> EmptyObj, tool |-> UNDEF,
           args |-> EmptyObj, warn |-> <<>>]
NoResult == [defined |-> FALSE, value |-> EmptyObj, content |-> <<>>]

Progress(st, i) == [status |-> st, index |-> i]

\* The loop state of one run.
Run == [pc |-> pc, index |-> index, results |-> results, events |-> events]

\* Faulty variant: the 'running' notification is left out.
RunningSilent(r) == r

\* notifyPopup('LLM_PROGRESS', { status: 'running', index, step })
Running(r) == [r EXCEPT !.events = Append(r.events, Progress("running", r.index))]

\* Faulty variant: a successful step is announced but not pushed to results.
CompletedNoPush(r, reply, len) ==
    [r EXCEPT !.events = Append(r.events, Progress("completed", r.index)),
              !.index = r.index + 1,
              !.pc = IF r.index + 1 < len THEN "loop" ELSE "done"]

\* Faulty variant: the loop goes on without announcing `completed`.
CompletedSilent(r, reply, len) ==
    [r EXCEPT !.results = Append(r.results,
                                 [success |-> TRUE, error |-> UNDEF,
                                  result |-> [defined |-> reply.defined,
                                              value |-> reply.value,
                                              content |-> reply.content]]),
              !.index = r.index + 1,
              !.pc = IF r.index + 1 < len THEN "loop" ELSE "done"]

\* results.push({ success: true, ... }); notify 'completed'; next iteration
Completed(r, reply, len) ==
    [r EXCEPT !.results = Append(r.results,
                                 [success |-> TRUE, error |-> UNDEF,
                                  result |-> [defined |-> reply.defined,
                                              value |-> reply.value,
                                              content |-> reply.content]]),
              !.events = Append(r.events, Progress("completed", r.index)),
              !.index = r.index + 1,
              !.pc = IF r.index + 1 < len THEN "loop" ELSE "done"]

\* Faulty variant: the catch block without its break.
FailedNoBreak(r, error) ==
    [r EXCEPT !.results = Append(r.results,
                                 [success |-> FALSE, error |-> error, result |-> NoResult]),
              !.events = Append(r.events, Progress("failed", r.index)),
              !.index = r.index + 1,
              !.pc = IF r.index + 1 < Len(plan) THEN "loop" ELSE "done"]

\* catch: results.push({ success: false, error }); notify 'failed'; break
Failed(r, error) ==
    [r EXCEPT !.results = Append(r.results,
                                 [success |-> FALSE, error |-> error, result |-> NoResult]),
              !.events = Append(r.events, Progress("failed", r.index)),
              !.pc = "done"]

(***************************************************************************)
(* Inputs of a run                                                         *)
(***************************************************************************)
MaxPlanLen == 2

NoBags == EmptyObj
Prim(type, params) == MkStep(type, TRUE, EmptyObj, params, NoBags, NoBags)
Tool(params, paramBags) == MkStep("CALL_TOOL", TRUE, EmptyObj, params, NoBags, paramBags)

\* The primitive steps, one unknown type and a step without params.
PrimitiveSteps ==
    {Prim("NAVIGATE", [url |-> "A"]),
     Prim("CLICK", [selector |-> ".btn"]),
     Prim("FILL", [selector |-> "#a", value |-> "x"]),
     Prim("EVALUATE_SCRIPT", [code |-> "1+1"]),
     Prim("TAKE_SCREENSHOT", EmptyObj),
     MkStep("HOVER", FALSE, EmptyObj, EmptyObj, NoBags, NoBags)}

\* new_page in the shapes the policy distinguishes.
NewPageSteps ==
    {Tool([tool |-> "new_page"], NoBags),
     Tool([name |-> "NEW_PAGE", forceNew |-> JTrue], NoBags),
     Tool([tool |-> "new_page"], [arguments |-> [url |-> "", force_new |-> JTrue]]),
     Tool([tool |-> "new_page", url |-> "A"], NoBags),
     Tool([tool |-> "new_page"], [arguments |-> [url |-> "A", forceNew |-> JTrue]]),
     MkStep("CALL_TOOL", FALSE, [tool_name |-> "new_page", url |-> "B", force_new |-> JTrue],
            EmptyObj, NoBags, NoBags)}

\* The other tool calls: page-lifecycle, extension, opaque, inferred, unnamed.
OtherToolSteps ==
    {Tool([tool |-> "navigate_page"], [arguments |-> [type |-> "url", url |-> "A"]]),
     MkStep("CALL_TOOL", TRUE, [url |-> "B"], [tool |-> "navigate_page"], NoBags,
            [arguments |-> [type |-> "url", url |-> "A"]]),
     MkStep("CALL_TOOL", FALSE, [tool_name |-> "list_pages"], EmptyObj, NoBags, NoBags),
     Tool([tool |-> "select_page"], NoBags),
     Tool([tool |-> "pages_close"], [args |-> [pageIdx |-> "1"]]),
     Tool([tool |-> "extension_click_selector", selector |-> ".btn"], NoBags),
     Tool([tool |-> "extension_hover"], [arguments |-> [selector |-> ".btn"]]),
     Tool([tool |-> "take_snapshot"], NoBags),
     Tool([selector |-> "#a", value |-> "x"], NoBags),
     Tool(EmptyObj, NoBags)}

\* Steps that name a tab of their own, in params or in the tool arguments.
TabSteps ==
    {Prim("CLICK", [selector |-> ".btn", tabId |-> "9"]),
     Tool([tool |-> "extension_click_selector"],
          [arguments |-> [selector |-> ".btn", tabId |-> "9"]]),
     Tool([tool |-> "navigate_page", url |-> "A", tabId |-> "9"], NoBags),
     Tool([toolName |-> "Custom_Tool"], [args |-> [x |-> "1", tabId |-> "9"]])}

\* The places a tool name can be written in, in the order the spec lists them,
\* and a distinct opaque tool name for each.
NameKeys ==
    <<[lvl |-> "params", key |-> "tool"], [lvl |-> "params", key |-> "toolName"],
      [lvl |-> "params", key |-> "tool_name"], [lvl |-> "params", key |-> "name"],
      [lvl |-> "top", key |-> "tool"], [lvl |-> "top", key |-> "toolName"],
      [lvl |-> "top", key |-> "tool_name"], [lvl |-> "top", key |-> "name"]>>
NameAt == <<"t1", "t2", "t3", "t4", "t5", "t6", "t7", "t8">>

\* The CALL_TOOL step that carries NameAt[p] in place p, for each p in ps.
NamedAt(ps) ==
    LET fields(lvl) ==
            [k \in {NameKeys[p].key : p \in {q \in ps : NameKeys[q].lvl = lvl}} |->
                NameAt[CHOOSE p \in ps : NameKeys[p].lvl = lvl /\ NameKeys[p].key = k]]
    IN MkStep("CALL_TOOL", TRUE, fields("top"), fields("params"), NoBags, NoBags)

\* One name in one place, and names in two neighbouring places.
NameSteps ==
    {NamedAt({p}) : p \in 1..8} \cup {NamedAt({p, p + 1}) : p \in 1..7}

\* Unnamed tool steps: every combination of the fields inference looks at, and
\* the values it treats specially (a text that is not a string, an empty
\* selector, a null value).
ShapeFields == [selector |-> "#a", value |-> "x", url |-> "A", code |-> "1+1", text |-> "hi"]
InferSteps ==
    {Tool([k \in ks |-> ShapeFields[k]], NoBags) : ks \in SUBSET DOMAIN ShapeFields}
        \cup {Tool([text |-> JTrue], NoBags),
              Tool([selector |-> "", text |-> "hi"], NoBags),
              Tool([selector |-> "#a", value |-> JNull], NoBags)}

\* Named opaque tool steps with the same field at the top level and nested:
\* in params, in a non-empty argument bag, or with no bag at all.
OverrideSteps ==
    {MkStep("CALL_TOOL", TRUE, [url |-> "B"], [tool |-> "take_snapshot", url |-> "A"],
            NoBags, NoBags),
     MkStep("CALL_TOOL", TRUE, [selector |-> ".top"], [tool |-> "take_snapshot"],
            NoBags, [arguments |-> [selector |-> ".bag"]]),
     MkStep("CALL_TOOL", TRUE, [url |-> "B"], [tool |-> "take_snapshot"],
            NoBags, [arguments |-> [url |-> "A"]]),
     MkStep("CALL_TOOL", TRUE,
            [url |-> "B", selector |-> ".top", value |-> "v", code |-> "c"],
            [tool |-> "take_snapshot"], NoBags, NoBags),
     MkStep("CALL_TOOL", TRUE, [tool |-> "take_snapshot", value |-> "v"], EmptyObj,
            [args |-> [value |-> "w", code |-> "c"]], NoBags)}

\* list_pages and select_page: the three url-like arguments, one at a time, in
\* params or in the argument bag, an empty url beside a pageUrl, and none.
PageSteps ==
    {Tool([tool |-> "LIST_PAGES"], NoBags),
     Tool([tool |-> "list_pages"], [arguments |-> [url |-> "A"]]),
     Tool([tool |-> "select_page", url |-> "A"], NoBags),
     Tool([tool |-> "select_page"], [arguments |-> [pageUrl |-> "B"]]),
     Tool([tool |-> "Select_Page", page |-> "C"], NoBags),
     Tool([tool |-> "select_page", pageUrl |-> "B", page |-> "C"], NoBags),
     Tool([tool |-> "select_page", url |-> "", pageUrl |-> "B"], NoBags),
     Tool([tool |-> "select_page"], [arguments |-> [pageIdx |-> "1"]])}

\* extension_* tools named after click, fill and evaluate, with and without
\* the argument the local action needs (an empty selector included).
ExtensionSteps ==
    {Tool([tool |-> "extension_click"], NoBags),
     Tool([tool |-> "extension_click", selector |-> ""], NoBags),
     Tool([tool |-> "extension_click", code |-> "1+1"], NoBags),
     MkStep("CALL_TOOL", TRUE, [selector |-> ".top"], [tool |-> "Extension_Click"],
            NoBags, NoBags),
     Tool([tool |-> "extension_fill_selector"],
          [arguments |-> [selector |-> "#a", value |-> "x"]]),
     Tool([tool |-> "extension_fill", selector |-> "#a", text |-> "hi"], NoBags),
     Tool([tool |-> "extension_fill", value |-> "x"], NoBags),
     Tool([tool |-> "extension_evaluate_script", code |-> "1+1"], NoBags),
     Tool([tool |-> "extension_evaluate"], [args |-> [selector |-> "#a"]])}

StepPool ==
    PrimitiveSteps \cup NewPageSteps \cup OtherToolSteps \cup TabSteps \cup NameSteps
        \cup InferSteps \cup OverrideSteps \cup PageSteps \cup ExtensionSteps

\* The steps plans of several steps are built from: one per route a step can take.
RunPool ==
    {Prim("NAVIGATE", [url |-> "A"]),
     Prim("CLICK", [selector |-> ".btn"]),
     MkStep("HOVER", FALSE, EmptyObj, EmptyObj, NoBags, NoBags),
     Tool([tool |-> "new_page"], NoBags),
     Tool([tool |-> "take_snapshot"], NoBags),
     MkStep("CALL_TOOL", FALSE, [tool_name |-> "list_pages"], EmptyObj, NoBags, NoBags),
     Tool([selector |-> "#a", value |-> "x"], NoBags),
     MkStep("CALL_TOOL", TRUE, [url |-> "B"], [tool |-> "navigate_page"], NoBags,
            [arguments |-> [type |-> "url", url |-> "A"]])}

Plans == UNION {[1..n -> RunPool] : n \in 0..MaxPlanLen}

\* Plans of one step, over every step shape.
SingleStepPlans == {<<s>> : s \in StepPool}

\* executePlan(plan, tabId?): the tab of the run, or none.
TabIds == {"7", UNDEF}

Statuses == {"disconnected", "connecting", "connected"}

ExecStart ==
    /\ tabId \in TabIds
    /\ pc = "start"
    /\ index = 0
    /\ results = <<>>
    /\ events = <<>>
    /\ warnings = <<>>
    /\ calls = <<>>
    /\ replies = <<>>
    /\ inflight = NoCall

\* new MCPBridge(): the fields' initial values.
BridgeInit ==
    /\ url = JNull
    /\ status = "disconnected"
    /\ socket = 0
    /\ sockets = <<>>
    /\ reconnectTimer = FALSE
    /\ reconnectTimeouts = 0
    /\ nextId = 1
    /\ pending = {}
    /\ timers = {}
    /\ settled = <<>>
    /\ sent = <<>>
    /\ notified = <<>>
    /\ trace = <<>>

\* new WebSocketServerTransport(): no server, no client.
TransportInit ==
    /\ wss = FALSE
    /\ serverSocket = 0
    /\ clients = <<>>
    /\ outbox = <<>>
    /\ sendResults = <<>>
    /\ handed = <<>>
    /\ oncloseCalls = 0

\* A promise that has not settled.
NotSettled ==
    [kind |-> "pending", defined |-> FALSE, value |-> EmptyObj, content |-> <<>>,
     error |-> UNDEF]

\* handleAction has not been called.
ClientIdle ==
    /\ clientAction = [isObject |-> FALSE, fields |-> EmptyObj]
    /\ clientPc = "idle"
    /\ targetTabId = UNDEF
    /\ clientResult = NotSettled

\* No CONTENT_ACTION has arrived.
ContentIdle ==
    /\ contentType = "CLICK"
    /\ readyState = "complete"
    /\ matches = FALSE
    /\ hasValue = FALSE
    /\ contentPc = "idle"
    /\ resolved = FALSE
    /\ observer = FALSE
    /\ pollId = FALSE
    /\ timeoutId = FALSE
    /\ elapsed = 0
    /\ resolutions = 0
    /\ responses = <<>>

AuxInit == TransportInit /\ ClientIdle /\ ContentIdle

SetRun(r) ==
    /\ pc' = r.pc
    /\ index' = r.index
    /\ results' = r.results
    /\ events' = r.events

\* const tabContext = await getActiveTabContext(): outside the try block, so
\* a failing chrome.tabs.query rejects the whole run.
QueryTab ==
    /\ pc = "start"
    /\ \E ok \in BOOLEAN :
           pc' = IF ~ok THEN "rejected" ELSE IF Len(plan) = 0 THEN "done" ELSE "loop"
    /\ UNCHANGED <<plan, tabId, index, results, events, warnings, calls, replies, inflight>>
    /\ UNCHANGED <<status, bridgeVars, auxVars>>

\* One loop iteration up to its await, or up to the catch when it throws first.
StepBegin ==
    /\ pc = "loop"
    /\ LET step == plan[index + 1]
           d == Decide(step, tabId, status)
           r == Running(Run)
           after == IF step.type = "CALL_TOOL" /\ Resolve(step).error = UNDEF
                    THEN Resolve(step).step ELSE step
       IN /\ plan' = [plan EXCEPT ![index + 1] = after]
          /\ warnings' = warnings \o [i \in 1..Len(d.warn) |->
                                         [message |-> d.warn[i].message,
                                          inferredTool |-> d.warn[i].inferredTool,
                                          step |-> IF d.warn[i].inferredTool # UNDEF
                                                   THEN step ELSE after,
                                          calls |-> Len(calls),
                                          index |-> index]]
          /\ IF d.kind = "throw"
             THEN /\ SetRun(Failed(r, d.error))
                  /\ UNCHANGED <<calls, inflight>>
             ELSE /\ SetRun([r EXCEPT !.pc = "await"])
                  /\ calls' = Append(calls, [index |-> index, kind |-> d.kind,
                                             action |-> d.action, tool |-> d.tool,
                                             args |-> d.args])
                  /\ inflight' = d
    /\ UNCHANGED <<tabId, replies>>
    /\ UNCHANGED <<status, bridgeVars, auxVars>>

\* The awaited backend answers: the rest of the iteration.
StepEnd ==
    /\ pc = "await"
    /\ \E reply \in Replies(inflight) :
           LET j == Judge(plan[index + 1].type, reply)
           IN /\ SetRun(IF j.ok THEN Completed(Run, reply, Len(plan))
                        ELSE Failed(Run, j.error))
              /\ replies' = Append(replies, [index |-> index, reply |-> reply])
    /\ inflight' = NoCall
    /\ UNCHANGED <<plan, tabId, warnings, calls>>
    /\ UNCHANGED <<status, bridgeVars, auxVars>>

\* The bridge's status as the run sees it changes while the run is suspended.
BridgeStatusChange ==
    /\ pc \in {"start", "await"}
    /\ \E st \in Statuses \ {status} : status' = st
    /\ UNCHANGED execVars
    /\ UNCHANGED <<bridgeVars, auxVars>>

ExecNext == QueryTab \/ StepBegin \/ StepEnd \/ BridgeStatusChange

\* Runs over plans of up to MaxPlanLen steps.
Init == plan \in Plans /\ ExecStart /\ BridgeInit /\ AuxInit
Spec == Init /\ [][ExecNext]_vars

\* Runs over one-step plans of every shape.
PolicyInit == plan \in SingleStepPlans /\ ExecStart /\ BridgeInit /\ AuxInit
PolicySpec == PolicyInit /\ [][ExecNext]_vars

(***************************************************************************)
(* MCPBridge.  The methods are operators on the record b of the instance's *)
(* fields (plus the sockets it has constructed and the observation logs);  *)
(* an action applies one entry point and stores the record back.           *)
(***************************************************************************)
MaxCalls == 2
MaxSockets == 2
\* Calls issued plus sockets constructed in one behaviour.
MaxHistory == 4

BridgeState ==
    [url |-> url, status |-> status, socket |-> socket, sockets |-> sockets,
     reconnectTimer |-> reconnectTimer, reconnectTimeouts |-> reconnectTimeouts,
     nextId |-> nextId, pending |-> pending,
     timers |-> timers, settled |-> settled, sent |-> sent, notified |-> notified,
     trace |-> trace]

SetBridge(b) ==
    /\ url' = b.url
    /\ status' = b.status
    /\ socket' = b.socket
    /\ sockets' = b.sockets
    /\ reconnectTimer' = b.reconnectTimer
    /\ reconnectTimeouts' = b.reconnectTimeouts
    /\ nextId' = b.nextId
    /\ pending' = b.pending
    /\ timers' = b.timers
    /\ settled' = b.settled
    /\ sent' = b.sent
    /\ notified' = b.notified
    /\ trace' = b.trace

\* A handler starts: the logs of the previous handler are dropped.
Enter(b) == [b EXCEPT !.trace = <<>>, !.notified = <<>>]

\* The ids of the calls that have received no outcome yet.
Unsettled(b) == {b.settled[c].id : c \in {x \in 1..Len(b.settled) : b.settled[x].outcomes = <<>>}}

\* An observable step of the handler, with the pending map's keys and the
\* unsettled calls at that moment.
Log(b, ev, arg) ==
    [b EXCEPT !.trace = Append(b.trace, [ev |-> ev, arg |-> arg, pend |-> b.pending,
                                         open |-> Unsettled(b)])]

\* resolve(undefined), resolve(value), reject(new Error(error))
Resolved == [kind |-> "resolve", error |-> UNDEF, value |-> UNDEF]
ResolvedWith(value) == [kind |-> "resolve", error |-> UNDEF, value |-> value]
Rejected(error) == [kind |-> "reject", error |-> error, value |-> UNDEF]

DisconnectedMessage == "MCP bridge disconnected before response arrived."
DisabledMessage == "MCP bridge disabled by configuration."
ReconfiguringMessage == "Reconfiguring MCP bridge endpoint."

\* pending.resolve(...) / pending.reject(...) of the call registered under id.
Settle(b, id, outcome) ==
    [b EXCEPT !.settled =
         [c \in 1..Len(b.settled) |->
             IF b.settled[c].id = id
             THEN [b.settled[c] EXCEPT !.outcomes = Append(@, outcome)]
             ELSE b.settled[c]]]

\* clearTimeout(timeoutId) of the request registered under id
ClearTimeout(b, id) == [b EXCEPT !.timers = @ \ {id}]

\* value.trim() for the strings used as endpoints
RECURSIVE Trim(_)
Trim(v) ==
    IF Len(v) = 0 THEN v
    ELSE IF SubSeq(v, 1, 1) = " " THEN Trim(SubSeq(v, 2, Len(v)))
    ELSE IF SubSeq(v, Len(v), Len(v)) = " " THEN Trim(SubSeq(v, 1, Len(v) - 1))
    ELSE v

NormalizeUrl(value) ==
    IF ~IsString(value) THEN JNull
    ELSE IF Len(Trim(value)) > 0 THEN Trim(value) ELSE JNull

\* socket.close(): no effect on a socket that is already closing or closed.
CloseSocket(b, s) ==
    [b EXCEPT !.sockets[s] = IF @ \in {"CONNECTING", "OPEN"} THEN "CLOSING" ELSE @]

UpdateStatus(b, next) ==
    IF b.status = next THEN b
    ELSE Log([b EXCEPT !.status = next], "status", next)

\* if (this.reconnectTimer !== undefined) { clearTimeout(...); this.reconnectTimer = undefined }
ClearReconnectTimer(b) ==
    IF b.reconnectTimer
    THEN [b EXCEPT !.reconnectTimer = FALSE, !.reconnectTimeouts = @ - 1]
    ELSE b

\* Faulty variant: a timeout is set even if one is already pending.
ScheduleReconnectUnguarded(b) ==
    IF b.url = JNull THEN b
    ELSE [b EXCEPT !.reconnectTimer = TRUE, !.reconnectTimeouts = @ + 1]

ScheduleReconnect(b) ==
    IF b.reconnectTimer \/ b.url = JNull THEN b
    ELSE [b EXCEPT !.reconnectTimer = TRUE, !.reconnectTimeouts = @ + 1]

\* Faulty variant: the loop rejects every call but deletes no entry.
RECURSIVE RejectAllKeepEntries(_, _)
RejectAllKeepEntries(b, error) ==
    IF b.timers = {} THEN b
    ELSE LET id == CHOOSE x \in b.timers : \A y \in b.timers : x <= y
         IN RejectAllKeepEntries(ClearTimeout(Settle(b, id, Rejected(error)), id), error)

\* The for loop of teardown, over the entries in insertion order.
RECURSIVE RejectAll(_, _)
RejectAll(b, error) ==
    IF b.pending = {} THEN b
    ELSE LET id == CHOOSE x \in b.pending : \A y \in b.pending : x <= y
             b1 == Settle(b, id, Rejected(error))
             b2 == ClearTimeout(b1, id)
         IN RejectAll([b2 EXCEPT !.pending = @ \ {id}], error)

\* Faulty variant: teardown that leaves the pending entries alone.
TeardownKeepPending(b, error, suppressReconnect) ==
    LET b1 == IF b.socket # 0 THEN CloseSocket(b, b.socket) ELSE b
        b3 == UpdateStatus([b1 EXCEPT !.socket = 0], "disconnected")
    IN IF suppressReconnect \/ b3.url = JNull THEN ClearReconnectTimer(b3)
       ELSE ScheduleReconnect(b3)

\* Faulty variant: teardown that never schedules a reconnect.
TeardownNeverReconnects(b, error, suppressReconnect) ==
    LET b1 == IF b.socket # 0 THEN CloseSocket(b, b.socket) ELSE b
        b3 == UpdateStatus([b1 EXCEPT !.socket = 0], "disconnected")
    IN ClearReconnectTimer(RejectAll(b3, IF error = UNDEF THEN DisconnectedMessage
                                         ELSE error))

Teardown(b, error, suppressReconnect) ==
    LET b1 == IF b.socket # 0 THEN CloseSocket(b, b.socket) ELSE b
        b2 == [b1 EXCEPT !.socket = 0]
        b3 == UpdateStatus(b2, "disconnected")
        b4 == RejectAll(b3, IF error = UNDEF THEN DisconnectedMessage ELSE error)
    IN IF suppressReconnect \/ b4.url = JNull THEN ClearReconnectTimer(b4)
       ELSE ScheduleReconnect(b4)

\* Faulty variant: a construction failure does not schedule a reconnect.
ConnectFailureSuppressed(b, ctorThrows) ==
    IF b.url = JNull THEN UpdateStatus(b, "disconnected")
    ELSE IF b.socket # 0 \/ b.status = "connecting" THEN b
    ELSE LET b1 == UpdateStatus(ClearReconnectTimer(b), "connecting")
         IN IF ctorThrows THEN Teardown(b1, "websocket-constructor-error", TRUE)
            ELSE Log([b1 EXCEPT !.socket = Len(b1.sockets) + 1,
                                !.sockets = Append(@, "CONNECTING")],
                     "construct", b1.url)

\* Faulty variant: the status is `connected` as soon as the socket is constructed.
ConnectOptimistic(b, ctorThrows) ==
    IF b.url = JNull THEN UpdateStatus(b, "disconnected")
    ELSE IF b.socket # 0 \/ b.status = "connecting" THEN b
    ELSE LET b1 == UpdateStatus(ClearReconnectTimer(b), "connected")
         IN IF ctorThrows THEN Teardown(b1, "websocket-constructor-error", FALSE)
            ELSE Log([b1 EXCEPT !.socket = Len(b1.sockets) + 1,
                                !.sockets = Append(@, "CONNECTING")],
                     "construct", b1.url)

\* connect(); ctorThrows: new WebSocket(url) throws.
Connect(b, ctorThrows) ==
    IF b.url = JNull THEN UpdateStatus(b, "disconnected")
    ELSE IF b.socket # 0 \/ b.status = "connecting" THEN b
    ELSE LET b1 == UpdateStatus(ClearReconnectTimer(b), "connecting")
         IN IF ctorThrows THEN Teardown(b1, "websocket-constructor-error", FALSE)
            ELSE Log([b1 EXCEPT !.socket = Len(b1.sockets) + 1,
                                !.sockets = Append(@, "CONNECTING")],
                     "construct", b1.url)

\* Faulty variant: clearing the endpoint only forgets the url.
SetUrlClearOnly(b, next, ctorThrows) ==
    LET normalized == NormalizeUrl(next)
    IN IF normalized = JNull THEN [b EXCEPT !.url = JNull]
       ELSE IF b.url = normalized THEN
           IF b.socket = 0 THEN Connect(b, ctorThrows) ELSE b
       ELSE Connect(Teardown([b EXCEPT !.url = normalized], ReconfiguringMessage, TRUE),
                    ctorThrows)

\* Faulty variant: the endpoint is reconfigured even when it did not change.
SetUrlAlwaysReconfigure(b, next, ctorThrows) ==
    LET b1 == [b EXCEPT !.url = NormalizeUrl(next)]
    IN IF b1.url = JNull THEN Teardown(b1, DisabledMessage, TRUE)
       ELSE Connect(Teardown(b1, ReconfiguringMessage, TRUE), ctorThrows)

SetUrl(b, next, ctorThrows) ==
    LET normalized == NormalizeUrl(next)
    IN IF b.url = normalized THEN
           LET b1 == IF normalized # JNull /\ b.socket = 0 THEN Connect(b, ctorThrows)
                     ELSE b
           IN IF normalized = JNull THEN Teardown(b1, DisabledMessage, TRUE) ELSE b1
       ELSE LET b1 == [b EXCEPT !.url = normalized]
            IN IF b1.url = JNull THEN Teardown(b1, DisabledMessage, TRUE)
               ELSE Connect(Teardown(b1, ReconfiguringMessage, TRUE), ctorThrows)

ReconnectNowOp(b, ctorThrows) ==
    IF b.url = JNull THEN UpdateStatus(b, "disconnected")
    ELSE IF b.socket # 0 THEN CloseSocket(b, b.socket)
    ELSE Connect(b, ctorThrows)

\* A callTool invocation that threw before an id was allocated.
Thrown(b, error) ==
    [b EXCEPT !.settled = Append(@, [id |-> 0, outcomes |-> <<Rejected(error)>>])]

\* Faulty variant: a failing send is treated as a lost connection.
SendRequestDropsConnection(b, sendThrows) ==
    IF b.socket = 0 \/ b.sockets[b.socket] # "OPEN" THEN Thrown(b, "mcp-disconnected")
    ELSE LET id == b.nextId
             b1 == [b EXCEPT !.nextId = @ + 1,
                             !.timers = @ \cup {id},
                             !.pending = @ \cup {id},
                             !.settled = Append(@, [id |-> id, outcomes |-> <<>>])]
         IN IF sendThrows THEN Teardown(b1, "send-error", FALSE)
            ELSE [b1 EXCEPT !.sent = Append(@, [sock |-> b1.socket, id |-> id])]

\* sendRequest('tools/call', ...); sendThrows: JSON.stringify or socket.send throws.
SendRequest(b, sendThrows) ==
    IF b.socket = 0 \/ b.sockets[b.socket] # "OPEN" THEN Thrown(b, "mcp-disconnected")
    ELSE LET id == b.nextId
             b1 == [b EXCEPT !.nextId = @ + 1,
                             !.timers = @ \cup {id},
                             !.settled = Append(@, [id |-> id, outcomes |-> <<>>])]
             b2 == [b1 EXCEPT !.pending = @ \cup {id}]
         IN IF sendThrows
            THEN Settle(ClearTimeout([b2 EXCEPT !.pending = @ \ {id}], id),
                        id, Rejected("send-error"))
            ELSE [b2 EXCEPT !.sent = Append(@, [sock |-> b2.socket, id |-> id])]

\* Faulty variant: the guards test only that a socket object exists.
CallToolSocketOnly(b, sendThrows) ==
    IF b.socket = 0 THEN Thrown(b, "mcp-disconnected")
    ELSE LET id == b.nextId
             b1 == [b EXCEPT !.nextId = @ + 1,
                             !.timers = @ \cup {id},
                             !.pending = @ \cup {id},
                             !.settled = Append(@, [id |-> id, outcomes |-> <<>>])]
         IN [b1 EXCEPT !.sent = Append(@, [sock |-> b1.socket, id |-> id])]

CallToolOp(b, sendThrows) ==
    IF ~IsConnected(b.status) THEN Thrown(b, "mcp-disconnected")
    ELSE SendRequest(b, sendThrows)

\* Faulty variant: the timeout callback forgets this.pending.delete(id).
OnTimeoutKeepEntry(b, id) ==
    Settle([b EXCEPT !.timers = @ \ {id}], id, Rejected("mcp-timeout"))

\* The callback of the request timer of id.
OnTimeout(b, id) ==
    Settle([b EXCEPT !.timers = @ \ {id}, !.pending = @ \ {id}], id, Rejected("mcp-timeout"))

\* Faulty variant: on open, the request of a call that was rejected earlier is
\* sent again on the new socket.
OnOpenResend(b) ==
    LET lost == {b.settled[c].id :
                    c \in {x \in 1..Len(b.settled) :
                              /\ b.settled[x].id # 0
                              /\ b.settled[x].outcomes # <<>>
                              /\ b.settled[x].outcomes[1].kind = "reject"}}
        b1 == UpdateStatus(b, "connected")
    IN IF lost = {} \/ b.socket = 0 THEN b1
       ELSE [b1 EXCEPT !.sent = Append(@, [sock |-> b.socket,
                                           id |-> CHOOSE x \in lost : \A y \in lost : x <= y])]

\* The listener of the socket's 'open' event.
OnOpen(b) == UpdateStatus(b, "connected")

\* The callback of the reconnect timeout: this.reconnectTimer = undefined; this.connect()
OnReconnectTimer(b, ctorThrows) ==
    Connect([b EXCEPT !.reconnectTimer = FALSE, !.reconnectTimeouts = @ - 1], ctorThrows)

\* The listener of the socket's 'close' event: this.teardown(), whichever
\* socket the event belongs to.
OnClose(b) == Teardown(b, UNDEF, FALSE)

\* Incoming frames: text that does not parse, an object without id, or an
\* object with an id and: an error (its message) and a result, a null error
\* and a result, or neither member (UNDEF: the member is absent).
FrameBodies ==
    {[error |-> "remote-error", result |-> "r"],
     [error |-> JNull, result |-> "r"],
     [error |-> UNDEF, result |-> UNDEF]}
Frames ==
    {[parses |-> FALSE, id |-> 0, error |-> UNDEF, result |-> UNDEF],
     [parses |-> TRUE, id |-> 0, error |-> UNDEF, result |-> UNDEF]}
        \cup {[parses |-> TRUE, id |-> i, error |-> f.error, result |-> f.result] :
                  i \in 1..MaxCalls, f \in FrameBodies}

\* Faulty variant: the request timer is not cancelled when the response arrives.
HandleMessageKeepTimer(b, frame) ==
    IF ~frame.parses THEN b
    ELSE IF frame.id # 0 THEN
        IF frame.id \notin b.pending THEN b
        ELSE Settle([b EXCEPT !.pending = @ \ {frame.id}], frame.id,
                    IF Truthy(frame.error) THEN Rejected(frame.error)
                    ELSE ResolvedWith(frame.result))
    ELSE [b EXCEPT !.notified = Append(@, frame)]

\* Faulty variant: a result member is looked at before the error member.
HandleMessageResultFirst(b, frame) ==
    IF ~frame.parses THEN b
    ELSE IF frame.id # 0 THEN
        IF frame.id \notin b.pending THEN b
        ELSE LET b1 == ClearTimeout([b EXCEPT !.pending = @ \ {frame.id}], frame.id)
             IN IF frame.result # UNDEF
                THEN Settle(b1, frame.id, ResolvedWith(frame.result))
                ELSE IF Truthy(frame.error) THEN Settle(b1, frame.id, Rejected(frame.error))
                     ELSE Settle(b1, frame.id, Resolved)
    ELSE [b EXCEPT !.notified = Append(@, frame)]

HandleMessage(b, frame) ==
    IF ~frame.parses THEN b
    ELSE IF frame.id # 0 THEN
        IF frame.id \notin b.pending THEN b
        ELSE LET b1 == ClearTimeout([b EXCEPT !.pending = @ \ {frame.id}], frame.id)
             IN IF Truthy(frame.error) THEN Settle(b1, frame.id, Rejected(frame.error))
                ELSE IF frame.result # UNDEF
                     THEN Settle(b1, frame.id, ResolvedWith(frame.result))
                     ELSE Settle(b1, frame.id, Resolved)
    ELSE [b EXCEPT !.notified = Append(@, frame)]

\* Endpoints handed to setUrl.
UrlInputs == {JNull, " ", "ws://a", " ws://b "}

\* The run's variables, at rest while the bridge alone is exercised.
ExecIdle ==
    /\ plan = <<>>
    /\ tabId = UNDEF
    /\ pc = "start"
    /\ index = 0
    /\ results = <<>>
    /\ events = <<>>
    /\ warnings = <<>>
    /\ calls = <<>>
    /\ replies = <<>>
    /\ inflight = NoCall

WithinBounds(b) ==
    /\ Len(b.sockets) <= MaxSockets
    /\ Len(b.settled) <= MaxCalls
    /\ Len(b.sockets) + Len(b.settled) <= MaxHistory

Apply(b) ==
    /\ WithinBounds(b)
    /\ SetBridge(b)
    /\ UNCHANGED <<execVars, auxVars>>

DoSetUrl ==
    /\ pc = "start"
    /\ \E next \in UrlInputs, ctorThrows \in BOOLEAN :
           Apply(SetUrl(Enter(BridgeState), next, ctorThrows))

DoReconnectNow ==
    /\ pc = "start"
    /\ \E ctorThrows \in BOOLEAN :
           Apply(ReconnectNowOp(Enter(BridgeState), ctorThrows))

DoCallTool ==
    /\ pc = "start"
    /\ \E sendThrows \in BOOLEAN :
           Apply(CallToolOp(Enter(BridgeState), sendThrows))

\* A request timer expires.
RequestTimeout ==
    \E id \in timers : Apply(OnTimeout(Enter(BridgeState), id))

\* A reconnect timeout expires: this.reconnectTimer = undefined; this.connect().
ReconnectTimerFires ==
    /\ reconnectTimeouts > 0
    /\ \E ctorThrows \in BOOLEAN :
           Apply(OnReconnectTimer(Enter(BridgeState), ctorThrows))

\* 'open' event of socket s.
SocketOpen ==
    \E s \in 1..Len(sockets) :
        /\ sockets[s] = "CONNECTING"
        /\ Apply(OnOpen([Enter(BridgeState) EXCEPT !.sockets[s] = "OPEN"]))

\* 'message' event of socket s.
SocketMessage ==
    /\ \E s \in 1..Len(sockets) : sockets[s] \in {"OPEN", "CLOSING"}
    /\ \E frame \in Frames : Apply(HandleMessage(Enter(BridgeState), frame))

\* 'close' event of socket s: the peer closed, the connection failed, or a
\* close() requested earlier completed.
SocketClose ==
    \E s \in 1..Len(sockets) :
        /\ sockets[s] # "CLOSED"
        /\ Apply(OnClose([Enter(BridgeState) EXCEPT !.sockets[s] = "CLOSED"]))

BridgeNext ==
    \/ DoSetUrl
    \/ DoReconnectNow
    \/ DoCallTool
    \/ RequestTimeout
    \/ ReconnectTimerFires
    \/ SocketOpen
    \/ SocketMessage
    \/ SocketClose

BridgeStart == ExecIdle /\ BridgeInit /\ AuxInit
BridgeSpec == BridgeStart /\ [][BridgeNext]_vars

(***************************************************************************)
(* WebSocketServerTransport.  The methods and listeners are operators on   *)
(* the record t of the instance's fields, the client connections and the   *)
(* observation logs.                                                       *)
(***************************************************************************)
MaxClients == 2
MaxSends == 1

TransportState ==
    [wss |-> wss, socket |-> serverSocket, clients |-> clients, outbox |-> outbox,
     sendResults |-> sendResults, handed |-> handed, oncloseCalls |-> oncloseCalls]

SetTransport(t) ==
    /\ wss' = t.wss
    /\ serverSocket' = t.socket
    /\ clients' = t.clients
    /\ outbox' = t.outbox
    /\ sendResults' = t.sendResults
    /\ handed' = t.handed
    /\ oncloseCalls' = t.oncloseCalls

NoClientMessage == "No WebSocket client connected"

\* start(): if (this.wss) return; this.wss = new WebSocketServerCtor(...)
Start(t) == [t EXCEPT !.wss = TRUE]

\* wss.on('connection', (ws) => { this.socket = ws; ... })
OnConnection(t) ==
    [t EXCEPT !.clients = Append(@, "OPEN"), !.socket = Len(t.clients) + 1]

\* ws.on('message', ...) of client c: the parsed object goes to onmessage, a
\* parse failure to onerror.
OnClientMessage(t, c, parses) ==
    [t EXCEPT !.handed = Append(@, [from |-> c,
                                    to |-> IF parses THEN "onmessage" ELSE "onerror"])]

\* ws.on('close', () => { this.socket = undefined; this.onclose && this.onclose() })
\* of client c.
OnClientClose(t, c) == [t EXCEPT !.socket = 0, !.oncloseCalls = @ + 1]

\* send(message); sendFails: the socket reports an error to the callback.
Send(t, message, sendFails) ==
    IF t.socket = 0 \/ t.clients[t.socket] # "OPEN"
    THEN [t EXCEPT !.sendResults = Append(@, NoClientMessage)]
    ELSE [t EXCEPT !.outbox = Append(@, [to |-> t.socket, message |-> message]),
                   !.sendResults = Append(@, IF sendFails THEN "send-error"
                                             ELSE "resolved")]

\* close(): the current client is closed and forgotten, the server is closed,
\* onclose is called.
Close(t) ==
    LET t1 == IF t.socket # 0
              THEN [t EXCEPT !.clients[t.socket] = IF @ = "OPEN" THEN "CLOSING" ELSE @,
                             !.socket = 0]
              ELSE t
    IN [t1 EXCEPT !.wss = FALSE, !.oncloseCalls = @ + 1]

TransportApply(t) ==
    /\ Len(t.clients) <= MaxClients
    /\ Len(t.sendResults) <= MaxSends
    /\ Len(t.handed) <= MaxSends
    /\ t.oncloseCalls <= MaxClients + 1
    /\ SetTransport(t)
    /\ UNCHANGED <<execVars, status, bridgeVars, clientVars, contentVars>>

DoStart ==
    /\ ~wss
    /\ TransportApply(Start(TransportState))

\* A client connects to the listening server.
ClientConnects ==
    /\ wss
    /\ TransportApply(OnConnection(TransportState))

\* A message arrives from client c.
ClientMessage ==
    \E c \in 1..Len(clients), parses \in BOOLEAN :
        /\ clients[c] = "OPEN"
        /\ TransportApply(OnClientMessage(TransportState, c, parses))

\* Client c starts to close its connection.
ClientLeaves ==
    \E c \in 1..Len(clients) :
        /\ clients[c] = "OPEN"
        /\ TransportApply([TransportState EXCEPT !.clients[c] = "CLOSING"])

\* The close event of client c.
ClientClosed ==
    \E c \in 1..Len(clients) :
        /\ clients[c] # "CLOSED"
        /\ TransportApply(OnClientClose([TransportState EXCEPT !.clients[c] = "CLOSED"], c))

DoSend ==
    /\ Len(sendResults) < MaxSends
    /\ \E sendFails \in BOOLEAN : TransportApply(Send(TransportState, "m", sendFails))

DoClose ==
    /\ wss \/ serverSocket # 0
    /\ TransportApply(Close(TransportState))

TransportNext ==
    \/ DoStart
    \/ ClientConnects
    \/ ClientMessage
    \/ ClientLeaves
    \/ ClientClosed
    \/ DoSend
    \/ DoClose

TransportStart == ExecIdle /\ BridgeInit /\ TransportInit /\ ClientIdle /\ ContentIdle
TransportSpec == TransportStart /\ [][TransportNext]_vars

(***************************************************************************)
(* MCPClient.handleAction, await by await  (mcp-bridge.ts 380-495)         *)
(*                                                                         *)
(* clientPc is where the call is parked: "update" (chrome.tabs.update),    *)
(* "get" (chrome.tabs.get), "loading" (the onUpdated listener and the      *)
(* navigation timeout are both armed), "settle" (the 150 ms settle timer), *)
(* "send" (chrome.tabs.sendMessage), "capture" (captureVisibleTab), and    *)
(* "settled" once the promise of the call has settled.                     *)
(***************************************************************************)
ClientTypes ==
    {"NAVIGATE", "CLICK", "FILL", "EVALUATE_SCRIPT", "TAKE_SCREENSHOT", "HOVER",
     JNull, UNDEF}
ClientTabs == {"7", "9", "tab", JNull, UNDEF}

\* { type, tabId } with the undefined members left out
ActionOf(type, tab) ==
    LET a == IF type = UNDEF THEN EmptyObj ELSE [type |-> type]
    IN IF tab = UNDEF THEN a ELSE Put(a, "tabId", tab)

\* The arguments handleAction is called with: an action object, or undefined
\* (an MCP_ACTION message without payload).
ClientActions ==
    {[isObject |-> TRUE, fields |-> ActionOf(type, tab)] :
         type \in ClientTypes, tab \in ClientTabs}
    \cup {[isObject |-> FALSE, fields |-> EmptyObj]}

ContentTypes == {"CLICK", "FILL", "EVALUATE_SCRIPT"}
SupportedTypes == ContentTypes \cup {"NAVIGATE", "TAKE_SCREENSHOT"}

ClientState ==
    [action |-> clientAction, pc |-> clientPc, target |-> targetTabId,
     result |-> clientResult]

SetClient(h) ==
    /\ clientAction' = h.action
    /\ clientPc' = h.pc
    /\ targetTabId' = h.target
    /\ clientResult' = h.result

\* The promise of the call settles with `reply`.
Finish(h, reply) == [h EXCEPT !.pc = "settled", !.target = UNDEF, !.result = reply]

\* Faulty variant: the switch is not wrapped in try / catch.
Uncaught(h, message) == Finish(h, Reject(message))

\* catch (error) { return { success: false, error: error?.message || String(error) } }
Caught(h, message) ==
    Finish(h, Return([success |-> JFalse, error |-> OrChain(<<message, "Error">>)]))

\* return await this.sendContentAction(action.tabId, ...): rejects at once
\* without a numeric tabId, else waits for the sendMessage callback.
SendContentAction(h) ==
    IF ~IsNumber(Get(h.action.fields, "tabId")) THEN Caught(h, "tab-id-required")
    ELSE [h EXCEPT !.pc = "send", !.target = UNDEF]

\* waitForTabLoad returned: NAVIGATE reports success, the others go on to
\* the content script.
Loaded(h) ==
    IF Get(h.action.fields, "type") = "NAVIGATE"
    THEN Finish(h, Return([success |-> JTrue]))
    ELSE SendContentAction(h)

\* waitForTabLoad rejected: NAVIGATE awaits it in a try of its own and only
\* warns, the others let it reach the outer catch.
LoadFailed(h, message) ==
    IF Get(h.action.fields, "type") = "NAVIGATE"
    THEN Finish(h, Return([success |-> JTrue]))
    ELSE Caught(h, message)

\* waitForTabLoad(tab) up to its first await
WaitForTabLoad(h, tab) ==
    IF ~IsNumber(tab) THEN Loaded(h)
    ELSE [h EXCEPT !.pc = "get", !.target = tab]

\* handleAction(action) up to its first await
Switch(h) ==
    IF ~h.action.isObject
    THEN Caught(h, "Cannot read properties of undefined (reading 'type')")
    ELSE LET type == Get(h.action.fields, "type")
         IN IF type = "NAVIGATE" THEN [h EXCEPT !.pc = "update"]
            ELSE IF type \in ContentTypes
                 THEN WaitForTabLoad(h, Get(h.action.fields, "tabId"))
            ELSE IF type = "TAKE_SCREENSHOT" THEN [h EXCEPT !.pc = "capture"]
            ELSE Finish(h, Return([success |-> JFalse,
                                   error |-> "unknown-action:" \o JSString(type)]))

\* What chrome.tabs.update can do: resolve with the updated tab (id 5),
\* resolve with undefined, or reject.
UpdateOutcomes == {[ok |-> TRUE, id |-> "5"], [ok |-> TRUE, id |-> UNDEF],
                   [ok |-> FALSE, id |-> UNDEF]}

\* await chrome.tabs.update(...) settles
OnTabsUpdate(h, outcome) ==
    IF ~outcome.ok THEN Caught(h, "chrome-api-error")
    ELSE LET own == Get(h.action.fields, "tabId")
         IN WaitForTabLoad(h, IF IsNumber(own) THEN own ELSE outcome.id)

\* await chrome.tabs.get(tabId) settles: the tab is complete, it is not, or
\* the call rejects (treated as non-blocking).
OnTabsGet(h, outcome) ==
    IF outcome = "complete" THEN [h EXCEPT !.pc = "settle"]
    ELSE IF outcome = "loading" THEN [h EXCEPT !.pc = "loading"]
    ELSE Loaded(h)

\* the chrome.tabs.onUpdated listener
OnTabUpdated(h, updatedTabId, tabStatus) ==
    IF updatedTabId = h.target /\ tabStatus = "complete"
    THEN [h EXCEPT !.pc = "settle"]
    ELSE h

\* the navigation timeout fires: reject(new Error('navigation-timeout'))
OnNavigationTimeout(h) == LoadFailed(h, "navigation-timeout")

\* the settle timer fires
OnSettled(h) == Loaded(h)

\* What the content script answers to an action of this type
\* (automation.ts 94-144): its result object, or the converted exception.
ContentResponses(type) ==
    {[success |-> JTrue]}
    \cup (IF type \in {"CLICK", "FILL"}
          THEN {[success |-> JFalse, error |-> "selector-not-found"]} ELSE {})
    \cup (IF type = "FILL"
          THEN {[success |-> JFalse, error |-> "unsupported-element"]} ELSE {})
    \cup (IF type = "EVALUATE_SCRIPT"
          THEN {[success |-> JFalse, error |-> "script-error"]} ELSE {})

\* the chrome.tabs.sendMessage callback: lastError set, or a response
OnSendMessage(h, lastError, response) ==
    IF lastError # UNDEF THEN Caught(h, lastError)
    ELSE Finish(h, Return(response))

\* await chrome.tabs.captureVisibleTab(...) settles
OnCapture(h, ok) ==
    IF ok THEN Finish(h, Return([success |-> JTrue, dataUrl |-> "data:image/png"]))
    ELSE Caught(h, "chrome-api-error")

ClientApply(h) ==
    /\ SetClient(h)
    /\ UNCHANGED <<execVars, status, bridgeVars, transportVars, contentVars>>

HandleActionCalled ==
    /\ clientPc = "called"
    /\ ClientApply(Switch(ClientState))

TabsUpdateSettles ==
    /\ clientPc = "update"
    /\ \E outcome \in UpdateOutcomes : ClientApply(OnTabsUpdate(ClientState, outcome))

TabsGetSettles ==
    /\ clientPc = "get"
    /\ \E outcome \in {"complete", "loading", "error"} :
           ClientApply(OnTabsGet(ClientState, outcome))

TabUpdated ==
    /\ clientPc = "loading"
    /\ \E updatedTabId \in Numbers, tabStatus \in {"loading", "complete"} :
           ClientApply(OnTabUpdated(ClientState, updatedTabId, tabStatus))

NavigationTimeout ==
    /\ clientPc = "loading"
    /\ ClientApply(OnNavigationTimeout(ClientState))

SettleTimer ==
    /\ clientPc = "settle"
    /\ ClientApply(OnSettled(ClientState))

SendMessageCallback ==
    /\ clientPc = "send"
    /\ \/ ClientApply(OnSendMessage(ClientState, "chrome-last-error", UNDEF))
       \/ \E response \in ContentResponses(Get(clientAction.fields, "type")) :
              ClientApply(OnSendMessage(ClientState, UNDEF, response))

CaptureSettles ==
    /\ clientPc = "capture"
    /\ \E ok \in BOOLEAN : ClientApply(OnCapture(ClientState, ok))

ClientNext ==
    \/ HandleActionCalled
    \/ TabsUpdateSettles
    \/ TabsGetSettles
    \/ TabUpdated
    \/ NavigationTimeout
    \/ SettleTimer
    \/ SendMessageCallback
    \/ CaptureSettles

\* handleAction(action) has just been called.
ClientCalled ==
    /\ clientAction \in ClientActions
    /\ clientPc = "called"
    /\ targetTabId = UNDEF
    /\ clientResult = NotSettled

ClientStart == ExecIdle /\ BridgeInit /\ TransportInit /\ ClientCalled /\ ContentIdle
ClientSpec == ClientStart /\ [][ClientNext]_vars

(***************************************************************************)
(* The content script  (automation.ts 1-144)                               *)
(*                                                                         *)
(* One CONTENT_ACTION message and the page it runs in.  contentPc is where *)
(* the action is: "received" (the listener is about to run), "unready"     *)
(* (parked in waitForDocumentReady, the readystatechange listener is       *)
(* registered), "waiting" (parked in the promise of waitForElement) and    *)
(* "responded" (sendResponse was called).  Time is counted in poll periods *)
(* of 200 ms from the moment the interval and the timeout are set: the     *)
(* interval callback runs at every period, the timeout callback at period  *)
(* TimeoutPolls.                                                           *)
(***************************************************************************)
\* 15000 ms / 200 ms, scaled down
TimeoutPolls == 3

ContentActionTypes == {"CLICK", "FILL", "EVALUATE_SCRIPT", "HOVER"}
ReadyStates == {"loading", "interactive", "complete"}
IsReady(state) == state \in {"complete", "interactive"}

ContentState ==
    [type |-> contentType, readyState |-> readyState, matches |-> matches,
     hasValue |-> hasValue, pc |-> contentPc, resolved |-> resolved,
     observer |-> observer, pollId |-> pollId, timeoutId |-> timeoutId,
     elapsed |-> elapsed, resolutions |-> resolutions, responses |-> responses]

SetContent(c) ==
    /\ contentType' = c.type
    /\ readyState' = c.readyState
    /\ matches' = c.matches
    /\ hasValue' = c.hasValue
    /\ contentPc' = c.pc
    /\ resolved' = c.resolved
    /\ observer' = c.observer
    /\ pollId' = c.pollId
    /\ timeoutId' = c.timeoutId
    /\ elapsed' = c.elapsed
    /\ resolutions' = c.resolutions
    /\ responses' = c.responses

\* .then((result) => sendResponse(result))
SendResponse(c, response) ==
    [c EXCEPT !.pc = "responded", !.responses = Append(@, response)]

\* handleAction after waitForElement returned `found` (FALSE: null)
AfterWait(c, found) ==
    IF ~found THEN SendResponse(c, [success |-> JFalse, error |-> "selector-not-found"])
    ELSE IF c.type = "CLICK" \/ c.hasValue THEN SendResponse(c, [success |-> JTrue])
    ELSE SendResponse(c, [success |-> JFalse, error |-> "unsupported-element"])

\* cleanup()
Cleanup(c) == [c EXCEPT !.observer = FALSE, !.pollId = FALSE, !.timeoutId = FALSE]

\* finish(element)
FinishWait(c, found) ==
    IF c.resolved THEN c
    ELSE AfterWait(Cleanup([c EXCEPT !.resolved = TRUE, !.resolutions = @ + 1]), found)

\* check()
Check(c) == IF c.matches THEN FinishWait(c, TRUE) ELSE c

\* waitForElement once the document is ready: an immediate match returns,
\* else the observer, the interval and the timeout are set and check() runs.
Locate(c) ==
    IF c.matches THEN AfterWait(c, TRUE)
    ELSE Check([c EXCEPT !.pc = "waiting", !.observer = TRUE, !.pollId = TRUE,
                         !.timeoutId = TRUE, !.elapsed = 0])

\* waitForElement(selector) up to its first park
WaitForElement(c) ==
    IF IsReady(c.readyState) THEN Locate(c) ELSE [c EXCEPT !.pc = "unready"]

\* handleAction(request.payload) of the content script up to its first park
ContentHandleAction(c) ==
    IF c.type \in {"CLICK", "FILL"} THEN WaitForElement(c)
    ELSE IF c.type = "EVALUATE_SCRIPT" THEN SendResponse(c, [success |-> JTrue])
    ELSE SendResponse(c, [success |-> JFalse, error |-> "unsupported-action:" \o c.type])

\* The document moves on; handleStateChange runs if it is registered.
OnReadyStateChange(c, state) ==
    LET d == [c EXCEPT !.readyState = state]
    IN IF c.pc = "unready" /\ IsReady(state) THEN Locate(d) ELSE d

\* Nodes are added or removed under the observed root: the MutationObserver
\* callback runs check() if the observer is connected.
OnChildListMutation(c, nowMatches) ==
    LET d == [c EXCEPT !.matches = nowMatches]
    IN IF c.observer THEN Check(d) ELSE d

\* An attribute changes: the observer (childList, subtree) is not told.
OnAttributeMutation(c, nowMatches) == [c EXCEPT !.matches = nowMatches]

\* the setInterval callback
OnPoll(c) == Check([c EXCEPT !.elapsed = @ + 1])

\* the setTimeout callback
OnWaitTimeout(c) == FinishWait([c EXCEPT !.timeoutId = FALSE], FALSE)

ContentApply(c) ==
    /\ SetContent(c)
    /\ UNCHANGED <<execVars, status, bridgeVars, transportVars, clientVars>>

ContentActionReceived ==
    /\ contentPc = "received"
    /\ ContentApply(ContentHandleAction(ContentState))

ReadyStateChanges ==
    /\ readyState # "complete"
    /\ \E state \in ReadyStates :
           /\ (readyState = "loading" /\ state = "interactive")
              \/ (readyState = "interactive" /\ state = "complete")
           /\ ContentApply(OnReadyStateChange(ContentState, state))

ChildListMutation ==
    /\ contentPc # "idle"
    /\ ContentApply(OnChildListMutation(ContentState, ~matches))

AttributeMutation ==
    /\ contentPc # "idle"
    /\ ContentApply(OnAttributeMutation(ContentState, ~matches))

PollTick ==
    /\ pollId
    /\ elapsed < TimeoutPolls
    /\ ContentApply(OnPoll(ContentState))

TimeoutFires ==
    /\ timeoutId
    /\ elapsed = TimeoutPolls
    /\ ContentApply(OnWaitTimeout(ContentState))

ContentNext ==
    \/ ContentActionReceived
    \/ ReadyStateChanges
    \/ ChildListMutation
    \/ AttributeMutation
    \/ PollTick
    \/ TimeoutFires

\* A CONTENT_ACTION message has arrived in some page.
ContentReceived ==
    /\ contentType \in ContentActionTypes
    /\ readyState \in ReadyStates
    /\ matches \in BOOLEAN
    /\ hasValue \in BOOLEAN
    /\ contentPc = "received"
    /\ resolved = FALSE
    /\ observer = FALSE
    /\ pollId = FALSE
    /\ timeoutId = FALSE
    /\ elapsed = 0
    /\ resolutions = 0
    /\ responses = <<>>

ContentStart == ExecIdle /\ BridgeInit /\ TransportInit /\ ClientIdle /\ ContentReceived

\* The event loop runs every task that is due: the message task and the
\* timer callbacks.  What the page does (ready state, mutations) is up to
\* the page.
ContentSpec ==
    /\ ContentStart
    /\ [][ContentNext]_vars
    /\ WF_vars(ContentActionReceived)
    /\ WF_vars(PollTick)
    /\ WF_vars(TimeoutFires)

(***************************************************************************)
(* Properties of executePlan                                               *)
(***************************************************************************)
\* Number of progress events with status st for step index i.
Count(st, i) == Cardinality({k \in 1..Len(events) : events[k] = Progress(st, i)})
Terminal(i) == Count("completed", i) + Count("failed", i)
AnyFailed == \E i \in 1..Len(results) : ~results[i].success

\* C1: once step i has failed (a results entry with success:false and a
\* `failed` event), nothing later happens in the run: the failure is the last
\* entry and the last event, the run has returned, and no `running` event and
\* no backend invocation exists for an index above i.
C1_FailFast ==
    \A k \in 1..Len(events) :
        events[k].status = "failed" =>
            LET i == events[k].index
            IN /\ k = Len(events)
               /\ pc = "done"
               /\ inflight = NoCall
               /\ Len(results) = i + 1 /\ ~results[i + 1].success
               /\ \A m \in 1..Len(events) : events[m].index <= i
               /\ \A c \in 1..Len(calls) : calls[c].index <= i

\* A run whose first step failed although the plan has a second step.
C1_Witness ==
    /\ pc = "done"
    /\ Len(plan) = 2
    /\ Len(results) = 1 /\ ~results[1].success
    /\ events = <<Progress("running", 0), Progress("failed", 0)>>

\* C2: a primitive (non-CALL_TOOL) step whose backend result is
\* {success:false, error:e} is recorded as {success:false, error:e}, gets a
\* `failed` and no `completed` event, and is the last step attempted.
C2_PrimitiveFailureStops ==
    \A k \in 1..Len(replies) :
        LET i == replies[k].index
            rp == replies[k].reply
        IN (/\ plan[i + 1].type # "CALL_TOOL"
            /\ rp.kind = "return" /\ rp.defined
            /\ Get(rp.value, "success") = JFalse)
           => /\ ~results[i + 1].success
              /\ results[i + 1].error = Get(rp.value, "error")
              /\ Count("failed", i) = 1 /\ Count("completed", i) = 0
              /\ \A m \in 1..Len(events) : events[m].index <= i

\* C3 as stated: the returned results are no longer than the plan, and
\* strictly shorter exactly when some step failed.
C3_ShorterIffFailed ==
    pc = "done" =>
        /\ Len(results) <= Len(plan)
        /\ (Len(results) < Len(plan)) <=> AnyFailed

\* C3 amended: the returned results are no longer than the plan; they are
\* strictly shorter only if a step was recorded as failed; a recorded failure
\* is always the last entry (so a failure of the last step leaves the lengths
\* equal); with no recorded failure the lengths are equal.
C3_LengthLaw ==
    pc = "done" =>
        /\ Len(results) <= Len(plan)
        /\ Len(results) < Len(plan) => AnyFailed
        /\ \A i \in 1..Len(results) : ~results[i].success => i = Len(results)
        /\ ~AnyFailed => Len(results) = Len(plan)

\* A returned run of a two-step plan whose last step failed: equal lengths, one failure.
C3_Witness ==
    /\ pc = "done"
    /\ Len(plan) = 2 /\ Len(results) = 2
    /\ results[1].success /\ ~results[2].success

\* C4: each attempted step has exactly one `running` event, then at most one
\* terminal event (`completed` or `failed`), exactly one once the step is
\* over, and one results entry per terminal event; steps not yet reached
\* have no event at all.
C4_EventsPerStep ==
    /\ \A k \in 1..Len(events) :
           /\ events[k].index <= index
           /\ events[k].index < Len(plan)
           /\ events[k].index = index => pc \in {"await", "done"}
    /\ \A i \in 0..Len(plan) :
           /\ Count("running", i) <= 1
           /\ Terminal(i) <= Count("running", i)
           /\ Count("running", i) = 1 /\ ~(pc = "await" /\ i = index) => Terminal(i) = 1
           /\ Terminal(i) = 1 => Len(results) >= i + 1
    /\ \A k \in 1..Len(events) :
           events[k].status # "running" =>
               k > 1 /\ events[k - 1] = Progress("running", events[k].index)
    /\ Len(results) = Cardinality({k \in 1..Len(events) : events[k].status # "running"})
    /\ pc \in {"done", "loop"} => Len(events) = 2 * Len(results)

\* A finished run in which two steps were attempted.
C4_Witness ==
    /\ pc = "done"
    /\ Len(events) = 4
    /\ events[1] = Progress("running", 0) /\ events[3] = Progress("running", 1)

\* The step resolves to new_page and has no url in its resolved arguments,
\* at its top level or in its params.
NewPageWithoutUrl(step) ==
    /\ step.type = "CALL_TOOL"
    /\ Resolve(step).error = UNDEF
    /\ ToLowerCase(Resolve(step).toolName) = "new_page"
    /\ Falsy(Get(Resolve(step).toolArgs, "url"))
    /\ Falsy(Get(step.top, "url"))
    /\ Falsy(Get(MergedParams(step), "url"))

ForcedNew(step) ==
    \E k \in {"forceNew", "force_new"} :
        Truthy(Extract(step, Resolve(step).toolArgs, k))

\* C10: a new_page step without url, once attempted, has failed with
\* blocked-new-page-without-url and no backend was invoked for it, whatever
\* the bridge status and whether or not forced-new was asked for.
C10_NewPageWithoutUrlBlocked ==
    \A i \in 1..Len(plan) :
        NewPageWithoutUrl(plan[i]) /\ Count("running", i - 1) > 0 =>
            /\ Len(results) = i
            /\ ~results[i].success
            /\ results[i].error = "blocked-new-page-without-url"
            /\ Count("failed", i - 1) = 1
            /\ \A c \in 1..Len(calls) : calls[c].index # i - 1

\* A forced new_page without url was refused while the bridge was connected.
C10_Witness ==
    /\ Len(plan) = 1
    /\ NewPageWithoutUrl(plan[1]) /\ ForcedNew(plan[1])
    /\ status = "connected"
    /\ Len(results) = 1 /\ results[1].error = "blocked-new-page-without-url"

(***************************************************************************)
(* Properties of the dispatch policy.  Dispatching: the run is about to    *)
(* execute the loop body for CurStep; the bridge status it will see is the *)
(* current one.                                                            *)
(***************************************************************************)
Dispatching == pc = "loop"
CurStep == plan[index + 1]

\* The step is a CALL_TOOL that resolves, and its resolved call.
Resolves(step) == step.type = "CALL_TOOL" /\ Resolve(step).error = UNDEF
LowerName(step) == ToLowerCase(Resolve(step).toolName)
ResolvedArg(step, k) == Extract(step, Resolve(step).toolArgs, k)
IsNewPage(step) == Resolves(step) /\ LowerName(step) = "new_page"

\* The iteration fails with `e` before any backend is invoked.
FailsWith(e) ==
    /\ results' = Append(results, [success |-> FALSE, error |-> e, result |-> NoResult])
    /\ calls' = calls
    /\ inflight' = NoCall
    /\ pc' = "done"

\* The iteration invokes exactly this backend call and awaits it.
InvokesBridge(tool, args) ==
    /\ calls' = Append(calls, [index |-> index, kind |-> "bridge", action |-> EmptyObj,
                               tool |-> tool, args |-> args])
    /\ results' = results
    /\ pc' = "await"

InvokesLocal(action) ==
    /\ calls' = Append(calls, [index |-> index, kind |-> "local", action |-> action,
                               tool |-> UNDEF, args |-> EmptyObj])
    /\ results' = results
    /\ pc' = "await"

\* C11: a new_page step with a url and forced-new fails with
\* blocked-new-page-force-new-bridge-off, no backend invoked, when the bridge
\* is not connected; when it is connected the only invocation is the bridge
\* call of tool new_page with the resolved arguments.
C11_ForcedNewPage ==
    [][(Dispatching /\ IsNewPage(CurStep) /\ Truthy(ResolvedArg(CurStep, "url"))
            /\ ForcedNew(CurStep)) =>
           IF status # "connected"
           THEN FailsWith("blocked-new-page-force-new-bridge-off")
           ELSE InvokesBridge("new_page", Resolve(CurStep).toolArgs)]_vars

\* A forced new_page with a url was blocked because the bridge was off.
C11_Witness ==
    /\ Len(plan) = 1 /\ IsNewPage(plan[1]) /\ ForcedNew(plan[1])
    /\ Truthy(ResolvedArg(plan[1], "url"))
    /\ Len(results) = 1 /\ results[1].error = "blocked-new-page-force-new-bridge-off"
    /\ calls = <<>>

\* C12: a new_page step reaches the bridge only if it has a url, forced-new
\* is asked for and the bridge is connected at dispatch; a new_page step that
\* is not refused and is not in that case is invoked as the local action
\* NAVIGATE of its url on the run's tab, and nothing else.
C12_NewPageDowngraded ==
    [][(Dispatching /\ IsNewPage(CurStep)) =>
           LET u == ResolvedArg(CurStep, "url")
               backed == Truthy(u) /\ ForcedNew(CurStep) /\ status = "connected"
           IN /\ (Len(calls') > Len(calls) /\ calls'[Len(calls')].kind = "bridge") => backed
              /\ (results' = results /\ ~backed) =>
                     InvokesLocal([type |-> "NAVIGATE", url |-> u, tabId |-> tabId])]_vars

\* A new_page with a url and no forced-new went to the tab although the bridge was connected.
C12_Witness ==
    /\ Len(plan) = 1 /\ IsNewPage(plan[1]) /\ ~ForcedNew(plan[1])
    /\ status = "connected" /\ pc = "await"
    /\ Len(calls) = 1 /\ calls[1].kind = "local" /\ calls[1].action["type"] = "NAVIGATE"

\* C13: every action handed to the local backend has the run's tabId as its
\* tabId, whatever the step's params or arguments say.
C13_LocalActionsOnRunTab ==
    \A c \in 1..Len(calls) :
        calls[c].kind = "local" =>
            "tabId" \in DOMAIN calls[c].action /\ calls[c].action["tabId"] = tabId

\* A step that names tab 9 in its params or its arguments was handed to the local
\* backend with another tabId.
C13_Witness ==
    /\ Len(calls) = 1 /\ calls[1].kind = "local"
    /\ \/ Get(MergedParams(plan[1]), "tabId") = "9"
       \/ plan[1].type = "CALL_TOOL" /\ Get(Resolve(plan[1]).toolArgs, "tabId") = "9"
    /\ calls[1].action["tabId"] # "9"

\* The resolved tool name is neither an extension tool nor a page-lifecycle tool.
Opaque(step) ==
    /\ Resolves(step)
    /\ ~StartsWith(LowerName(step), "extension_")
    /\ ~StartsWith(LowerName(step), "pages_")
    /\ LowerName(step) \notin {"new_page", "navigate_page", "list_pages", "select_page"}

\* C14: an opaque tool step is invoked on the bridge, under its resolved name
\* and arguments, when the bridge is connected, and otherwise fails with
\* mcp-bridge-not-connected with nothing invoked; the local backend is never used.
C14_OpaqueForwarded ==
    [][(Dispatching /\ Opaque(CurStep)) =>
           IF status = "connected"
           THEN InvokesBridge(Resolve(CurStep).toolName, Resolve(CurStep).toolArgs)
           ELSE FailsWith("mcp-bridge-not-connected")]_vars

\* An opaque tool step failed because the bridge was not connected.
C14_Witness ==
    /\ Len(plan) = 1 /\ Opaque(plan[1])
    /\ Len(results) = 1 /\ results[1].error = "mcp-bridge-not-connected"
    /\ calls = <<>>

(***************************************************************************)
(* Properties of the resolution of a CALL_TOOL step                        *)
(***************************************************************************)
Attempted(i) == Count("running", i - 1) > 0

\* The first non-empty of the four name keys in params and then of the same
\* four keys at the step's top level.
FirstNamed(step) ==
    LET mp == MergedParams(step)
    IN OrChain(<<Get(mp, "tool"), Get(mp, "toolName"), Get(mp, "tool_name"),
                 Get(mp, "name"), Get(step.top, "tool"), Get(step.top, "toolName"),
                 Get(step.top, "tool_name"), Get(step.top, "name")>>)

\* C15: an attempted CALL_TOOL step that has a name in one of the eight places
\* does not fail for a missing name, and a bridge call made for it uses the
\* first non-empty of the eight, in the listed order.
C15_NameFromEightKeys ==
    \A i \in 1..Len(plan) :
        (plan[i].type = "CALL_TOOL" /\ Truthy(FirstNamed(plan[i])) /\ Attempted(i)) =>
            /\ Len(results) >= i => results[i].error # "call-tool-missing-name"
            /\ \A c \in 1..Len(calls) :
                   calls[c].index = i - 1 /\ calls[c].kind = "bridge" =>
                       calls[c].tool = FirstNamed(plan[i])

\* The tool the stated priority list infers for an unnamed step, UNDEF when no
\* rule applies; `textual` says what counts as a text.
Expected(step, textual(_)) ==
    LET mp == MergedParams(step)
    IN IF Truthy(Get(mp, "selector")) /\ Get(mp, "value") # UNDEF
           THEN "extension_fill_selector"
       ELSE IF Truthy(Get(mp, "selector")) THEN "extension_click_selector"
       ELSE IF Truthy(Get(mp, "url")) THEN "navigate_page"
       ELSE IF Truthy(Get(mp, "code")) THEN "extension_evaluate_script"
       ELSE IF textual(Get(mp, "text")) THEN "extension_fill_selector"
       ELSE UNDEF

\* The inferredTool values announced for step i (LLM_WARNING).
Announced(i) ==
    {warnings[w].inferredTool : w \in {x \in 1..Len(warnings) : warnings[x].index = i - 1}}
        \ {UNDEF}

\* What an attempted unnamed CALL_TOOL step must show under the priority list.
InferenceLaw(textual(_)) ==
    \A i \in 1..Len(plan) :
        (plan[i].type = "CALL_TOOL" /\ Falsy(FirstNamed(plan[i])) /\ Attempted(i)) =>
            LET mp == MergedParams(plan[i])
                tool == Expected(plan[i], textual)
            IN IF tool = UNDEF
               THEN /\ Len(results) = i /\ results[i].error = "call-tool-missing-name"
                    /\ Announced(i) = {}
                    /\ \A c \in 1..Len(calls) : calls[c].index # i - 1
               ELSE /\ Announced(i) = {tool}
                    /\ Len(results) >= i => results[i].error # "call-tool-missing-name"
                    /\ (Truthy(Get(mp, "selector")) /\ Get(mp, "value") # UNDEF) =>
                           InferTool(plan[i]).args
                               = [selector |-> mp["selector"], value |-> mp["value"]]
                    /\ (Falsy(Get(mp, "selector")) /\ tool = "extension_fill_selector") =>
                           InferTool(plan[i]).args["selector"]
                               = (IF Nullish(Get(mp, "selector")) THEN "input"
                                  ELSE mp["selector"])

\* C16 as stated: any text that is present counts for the last rule.
C16_InferenceAsStated == InferenceLaw(Truthy)

TextString(v) == Truthy(v) /\ IsString(v)

\* C16 amended: an attempted unnamed CALL_TOOL step announces and uses the tool
\* of the first rule that applies (selector and value: fill with exactly
\* {selector, value}; selector: click; url: navigate; code: evaluate-script;
\* a text that is a non-empty string: fill, with the given selector or the
\* default `input`); when no rule applies, which includes a text that is not
\* a string, it fails with call-tool-missing-name and no backend is invoked.
C16_InferenceByShape == InferenceLaw(TextString)

\* An unnamed step with a url, a code and a text but no selector was attempted
\* and navigate_page was inferred for it.
C16_Witness ==
    /\ Len(plan) = 1 /\ plan[1].type = "CALL_TOOL" /\ Falsy(FirstNamed(plan[1]))
    /\ DOMAIN MergedParams(plan[1]) = {"url", "code", "text"}
    /\ Announced(1) = {"navigate_page"}
    /\ Len(calls) = 1

ScalarFields == {"url", "selector", "value", "code"}

\* C17: in the arguments a CALL_TOOL step is forwarded with, each of url,
\* selector, value and code that is given at the step's top level has the
\* top-level value, whatever the argument bag or params hold under that name.
C17_TopLevelWins ==
    \A c \in 1..Len(calls) :
        calls[c].kind = "bridge" =>
            \A k \in ScalarFields :
                LET top == plan[calls[c].index + 1].top
                IN Truthy(Get(top, k)) => Get(calls[c].args, k) = top[k]

\* C18: resolving an attempted CALL_TOOL step again, as the run left it,
\* gives what the run's own resolution gave: the step is left as it is, it
\* throws call-tool-missing-name exactly if the run's did, it infers the tool
\* the run announced, and dispatching its name and arguments gives the
\* invocation the run made.
C18_ResolveTwice ==
    \A i \in 1..Len(plan) :
        (plan[i].type = "CALL_TOOL" /\ Attempted(i)) =>
            LET r == Resolve(plan[i])
            IN /\ r.step = plan[i]
               /\ r.error # UNDEF <=>
                      (Len(results) >= i /\ results[i].error = "call-tool-missing-name")
               /\ r.error = UNDEF => Announced(i) = {r.inferred} \ {UNDEF}
               /\ \A c \in 1..Len(calls) :
                      calls[c].index = i - 1 =>
                          \E st \in Statuses :
                              LET d == Decide(plan[i], tabId, st)
                              IN /\ d.kind = calls[c].kind
                                 /\ d.action = calls[c].action
                                 /\ d.tool = calls[c].tool
                                 /\ d.args = calls[c].args

\* The run's resolution wrote the top-level url into the step's argument bag
\* and forwarded the call; the second resolution starts from the written bag.
C18_Witness ==
    /\ Len(plan) = 1 /\ Len(calls) = 1 /\ calls[1].kind = "bridge"
    /\ plan[1].top = [url |-> "B"]
    /\ plan[1].paramBags = [arguments |-> [url |-> "B"]]
    /\ calls[1].args = [url |-> "B"]

\* C19: no step of the run changes the plan.
C19_PlanReadOnly == [][plan' = plan]_vars

\* C20: the run never ends by rejecting.
C20_NoExceptionEscapes == pc # "rejected"

\* C25: the `running` event of a step other than the first comes after the
\* `completed` event of the step before it; an invocation is made only when
\* every earlier one has been answered, so that at most one is in flight,
\* and one is in flight exactly while the run is suspended on it.
C25_Sequential ==
    /\ \A k \in 1..Len(events) :
           (events[k].status = "running" /\ events[k].index > 0) =>
               \E m \in 1..(k - 1) : events[m] = Progress("completed", events[k].index - 1)
    /\ Len(replies) <= Len(calls) /\ Len(calls) <= Len(replies) + 1
    /\ Len(calls) = Len(replies) + 1 <=> pc = "await"
    /\ \A c \in 1..Len(replies) : replies[c].index = calls[c].index
    /\ \A c \in 1..Len(calls) : \A d \in 1..Len(calls) :
           c < d => calls[c].index < calls[d].index

\* The second step's invocation is in flight after the first one was answered.
C25_Witness ==
    /\ pc = "await" /\ index = 1
    /\ Len(calls) = 2 /\ Len(replies) = 1
    /\ events = <<Progress("running", 0), Progress("completed", 0), Progress("running", 1)>>

(***************************************************************************)
(* Properties of MCPBridge                                                 *)
(***************************************************************************)
OutcomesOf(b, id) ==
    LET c == CHOOSE x \in 1..Len(b.settled) : b.settled[x].id = id
    IN b.settled[c].outcomes

\* C5: every callTool invocation has at most one outcome; one that threw
\* before registering has exactly its rejection; a registered call without
\* outcome is still in the pending map with its timer armed (so an outcome is
\* still due), and one with an outcome has neither entry nor timer.
C5_ExactlyOneOutcome ==
    \A c \in 1..Len(settled) :
        LET id == settled[c].id
            n == Len(settled[c].outcomes)
        IN /\ n <= 1
           /\ id = 0 => n = 1
           /\ id # 0 => /\ n = 0 <=> id \in pending
                        /\ id \in pending <=> id \in timers

\* Two calls were issued: one was resolved by its response, the other was
\* rejected by a reconfiguration.
C5_Witness ==
    /\ \E c \in 1..Len(settled) : settled[c].outcomes = <<Resolved>>
    /\ \E c \in 1..Len(settled) : settled[c].outcomes = <<Rejected(ReconfiguringMessage)>>

\* C6: a callTool issued while the status is not `connected` is rejected at
\* once with mcp-disconnected and touches nothing else: no frame is sent, no
\* pending entry and no timer are created, no id is consumed.
C6_RejectWhenNotConnected ==
    [][(Len(settled') = Len(settled) + 1 /\ status # "connected") =>
           /\ settled' = Append(settled, [id |-> 0,
                                          outcomes |-> <<Rejected("mcp-disconnected")>>])
           /\ sent' = sent
           /\ pending' = pending
           /\ timers' = timers
           /\ nextId' = nextId
           /\ UNCHANGED <<status, socket, sockets, url, reconnectTimer>>]_vars

\* A call was issued while the only socket was still connecting.
C6_Witness ==
    /\ sockets = <<"CONNECTING">>
    /\ status = "connecting"
    /\ settled = <<[id |-> 0, outcomes |-> <<Rejected("mcp-disconnected")>>]>>
    /\ sent = <<>>

\* C7: when the timer of a pending call fires the call is rejected with
\* mcp-timeout and its entry removed, nothing else changing; and a frame that
\* carries the id of a call rejected by timeout changes nothing at all.
C7_TimeoutThenLateResponseIgnored ==
    /\ \A id \in timers :
           LET b == OnTimeout(BridgeState, id)
           IN /\ OutcomesOf(b, id) = <<Rejected("mcp-timeout")>>
              /\ b.pending = pending \ {id}
              /\ b.timers = timers \ {id}
              /\ \A c \in 1..Len(settled) : settled[c].id # id => b.settled[c] = settled[c]
              /\ b.status = status /\ b.socket = socket
    /\ \A c \in 1..Len(settled) :
           settled[c].outcomes = <<Rejected("mcp-timeout")>> =>
               \A frame \in Frames :
                   frame.id = settled[c].id =>
                       HandleMessage(BridgeState, frame) = BridgeState

\* One call timed out while another is still pending on an open socket, over
\* which the late response can arrive.
C7_Witness ==
    /\ \E c \in 1..Len(settled) : settled[c].outcomes = <<Rejected("mcp-timeout")>>
    /\ pending # {}
    /\ socket # 0 /\ sockets[socket] = "OPEN"

\* C8: a setUrl that changes the endpoint rejects every pending call with the
\* reconfiguration error (the disabled error when the endpoint is cleared)
\* and empties the pending map, and any socket it constructs is constructed
\* when no entry and no unsettled call is left.
C8_RejectBeforeReconnect ==
    [][url' # url =>
           /\ pending' = {} /\ timers' = {}
           /\ \A c \in 1..Len(settled) :
                  settled[c].id \in pending =>
                      settled'[c].outcomes =
                          <<Rejected(IF url' = JNull THEN DisabledMessage
                                     ELSE ReconfiguringMessage)>>
           /\ \A k \in 1..Len(trace') :
                  trace'[k].ev = "construct" =>
                      trace'[k].pend = {} /\ trace'[k].open = {}]_vars

\* A handler tore down a connection that had pending calls and then
\* constructed a socket: setUrl with a new endpoint.
C8_Witness ==
    \E k, m \in 1..Len(trace) :
        /\ k < m
        /\ trace[k].ev = "status" /\ trace[k].arg = "disconnected" /\ trace[k].pend # {}
        /\ trace[m].ev = "construct"

\* C9: whenever the status listeners are told `disconnected`, the pending
\* map is already empty.
C9_RejectBeforeBroadcast ==
    \A k \in 1..Len(trace) :
        trace[k].ev = "status" /\ trace[k].arg = "disconnected" => trace[k].pend = {}

\* The status broadcasts of the last handler, in order.
Broadcasts == SelectSeq(trace, LAMBDA e : e.ev = "status")
Constructed == \E k \in 1..Len(trace) : trace[k].ev = "construct"
SentOn(s, id) == \E k \in 1..Len(sent) : sent[k] = [sock |-> s, id |-> id]

\* C21: between callbacks, pending entries exist only while a socket exists
\* and the status is `connected`, and each of them was created on that
\* socket: no entry outlives the connection it was sent on.
C21_PendingOnlyWhileConnected ==
    pending # {} =>
        /\ socket # 0
        /\ status = "connected"
        /\ \A id \in pending : SentOn(socket, id)

\* A call made on the first connection was rejected by its teardown, and a
\* call made on the second connection is pending.
C21_Witness ==
    /\ socket = 2 /\ pending # {}
    /\ \E c \in 1..Len(settled) :
           /\ settled[c].outcomes = <<Rejected(DisconnectedMessage)>>
           /\ SentOn(1, settled[c].id)

\* C22: while no endpoint is configured there is no socket, the status is
\* `disconnected`, no call is pending, no request or reconnect timer is set,
\* no socket constructed earlier is still connecting or open, and the handler
\* that led to the state (setUrl(null), a close event, a timer, reconnectNow)
\* made no connection attempt.
C22_ClearedStaysDown ==
    url = JNull =>
        /\ socket = 0
        /\ status = "disconnected"
        /\ pending = {} /\ timers = {}
        /\ ~reconnectTimer /\ reconnectTimeouts = 0
        /\ \A s \in 1..Len(sockets) : sockets[s] \in {"CLOSING", "CLOSED"}
        /\ ~Constructed
        /\ \A k \in 1..Len(trace) : trace[k].arg # "connecting"

\* The endpoint was cleared while a call was pending on the open socket, and
\* that socket's close event has since been handled.
C22_Witness ==
    /\ url = JNull
    /\ sockets = <<"CLOSED">>
    /\ \E c \in 1..Len(settled) : settled[c].outcomes = <<Rejected(DisabledMessage)>>

\* C23: setUrl with the endpoint already configured changes nothing at all
\* while a socket exists; when none exists the status is `disconnected` and
\* the call attempts a connection at once: it constructs a socket and the
\* status is `connecting`, no reconnect timer left, or, the construction
\* failing, it has announced `connecting` and falls back to the timer.
C23_SameUrl ==
    \A next \in UrlInputs :
        (NormalizeUrl(next) = url /\ url # JNull) =>
            IF socket # 0
            THEN \A ctorThrows \in BOOLEAN :
                     SetUrl(BridgeState, next, ctorThrows) = BridgeState
            ELSE /\ status = "disconnected"
                 /\ LET b == SetUrl(Enter(BridgeState), next, FALSE)
                    IN /\ b.socket = Len(sockets) + 1
                       /\ b.sockets = Append(sockets, "CONNECTING")
                       /\ b.status = "connecting"
                       /\ ~b.reconnectTimer /\ b.reconnectTimeouts = 0
                       /\ b.settled = settled /\ b.pending = pending
                 /\ LET f == SetUrl(Enter(BridgeState), next, TRUE)
                    IN /\ f.trace[1].arg = "connecting"
                       /\ f.socket = 0 /\ f.status = "disconnected"
                       /\ f.reconnectTimer

\* The endpoint is configured and a call is pending on the open socket: the
\* state in which a repeated setUrl must not disturb anything.
C23_Witness ==
    /\ url = "ws://b"
    /\ socket # 0 /\ sockets[socket] = "OPEN" /\ status = "connected"
    /\ pending # {}

\* C24: at most one reconnect timeout is outstanding, it is the one the
\* bridge holds the handle of, and none is outstanding while no endpoint is
\* configured or while the bridge has a socket.
C24_OneReconnectTimer ==
    /\ reconnectTimeouts <= 1
    /\ reconnectTimer <=> reconnectTimeouts = 1
    /\ reconnectTimeouts > 0 => url # JNull /\ socket = 0

\* Two sockets have been torn down by close events and one timer is pending.
C24_Witness ==
    /\ sockets = <<"CLOSED", "CLOSED">>
    /\ reconnectTimer /\ reconnectTimeouts = 1

\* What the frame's members say the call's outcome is.
OutcomeOf(frame) ==
    IF Truthy(frame.error) THEN Rejected(frame.error)
    ELSE IF frame.result # UNDEF THEN ResolvedWith(frame.result)
    ELSE Resolved

\* C26: a frame whose id is pending gives that call the outcome its members
\* say (truthy error: rejected with its message; else a result: resolved with
\* it; else resolved with undefined), removes its entry and timer, leaves
\* every other call, the status and the sockets as they are, and is not
\* handed to the notification listeners.
C26_ResponseSettlesItsCall ==
    \A frame \in Frames :
        (frame.parses /\ frame.id \in pending) =>
            LET b == HandleMessage(Enter(BridgeState), frame)
            IN /\ OutcomesOf(b, frame.id) = <<OutcomeOf(frame)>>
               /\ b.pending = pending \ {frame.id}
               /\ b.timers = timers \ {frame.id}
               /\ \A c \in 1..Len(settled) :
                      settled[c].id # frame.id => b.settled[c] = settled[c]
               /\ b.status = status /\ b.socket = socket /\ b.sockets = sockets
               /\ b.notified = <<>>

\* One call was resolved with the result of its response while another is pending.
C26_Witness ==
    /\ \E c \in 1..Len(settled) : settled[c].outcomes = <<ResolvedWith("r")>>
    /\ pending # {}
    /\ status = "connected"

\* C27: on an open connection, a frame that parses and whose id is not a
\* pending one (it has none, or one that is not tracked) is handed to the
\* notification listeners and leaves the pending map as it is.
C27_UntrackedFramesNotified ==
    \A frame \in Frames :
        (/\ frame.parses /\ frame.id \notin pending
         /\ socket # 0 /\ sockets[socket] = "OPEN") =>
            LET b == HandleMessage(Enter(BridgeState), frame)
            IN b.notified = <<frame>> /\ b.pending = pending

\* C28: on a connected bridge with an open socket, a call whose send throws
\* is rejected with the send error and leaves no entry and no timer; nothing
\* is sent, and the status, the socket, the reconnect timer and the other
\* calls are as before; no status is broadcast.
C28_SendFailureIsLocal ==
    (status = "connected" /\ socket # 0 /\ sockets[socket] = "OPEN") =>
        LET b == CallToolOp(Enter(BridgeState), TRUE)
        IN /\ b.settled = Append(settled, [id |-> nextId,
                                          outcomes |-> <<Rejected("send-error")>>])
           /\ b.pending = pending /\ b.timers = timers
           /\ b.sent = sent
           /\ b.status = status /\ b.socket = socket /\ b.sockets = sockets
           /\ b.reconnectTimer = reconnectTimer
           /\ b.reconnectTimeouts = reconnectTimeouts
           /\ b.trace = <<>>

\* A call failed on its send while an earlier call stays pending on the connection.
C28_Witness ==
    /\ \E c \in 1..Len(settled) : settled[c].outcomes = <<Rejected("send-error")>>
    /\ pending # {}
    /\ status = "connected" /\ socket # 0 /\ sockets[socket] = "OPEN"

\* The last handler announced `connecting` and then `disconnected` without
\* constructing a socket in between: the construction threw.
CtorFailed ==
    /\ Len(trace) >= 2
    /\ trace[Len(trace) - 1].ev = "status" /\ trace[Len(trace) - 1].arg = "connecting"
    /\ trace[Len(trace)].ev = "status" /\ trace[Len(trace)].arg = "disconnected"

\* C29: after a construction failure the bridge is as after a close event:
\* status `disconnected`, no socket, nothing pending, and one reconnect timer
\* scheduled for the configured endpoint.
C29_CtorFailureLikeClose ==
    CtorFailed =>
        /\ status = "disconnected"
        /\ socket = 0
        /\ pending = {} /\ timers = {}
        /\ url # JNull
        /\ reconnectTimer /\ reconnectTimeouts = 1

\* A reconnection attempted after the first socket had closed failed to construct.
C29_Witness ==
    /\ CtorFailed
    /\ sockets = <<"CLOSED">>

\* C30: in every handler, each status broadcast differs from the status
\* before it, `connected` is announced only after `connecting`, `connecting`
\* only after `disconnected`; the status becomes `connected` only by the
\* open event of the bridge's own socket, and `connected` implies a socket.
C30_StatusTransitions ==
    [][LET said == Broadcasts'
           seq == <<status>> \o [k \in 1..Len(said) |-> said[k].arg]
       IN /\ seq[Len(seq)] = status'
          /\ \A k \in 2..Len(seq) :
                 /\ seq[k] # seq[k - 1]
                 /\ seq[k] = "connected" => seq[k - 1] = "connecting"
                 /\ seq[k] = "connecting" => seq[k - 1] = "disconnected"
          /\ (status' = "connected" /\ status # "connected") =>
                 /\ socket # 0 /\ socket' = socket
                 /\ sockets[socket] = "CONNECTING" /\ sockets'[socket] = "OPEN"
          /\ status' = "connected" => socket' # 0]_vars

\* The second socket has opened: the status went disconnected, connecting, connected again.
C30_Witness ==
    /\ status = "connected" /\ socket = 2
    /\ Broadcasts # <<>> /\ Broadcasts[Len(Broadcasts)].arg = "connected"

\* C31: a request frame is sent only by the callTool invocation that registers
\* the call, under the id allocated by that invocation, and exactly once: no
\* other handler (open, close, timers, setUrl, reconnectNow) sends a frame, so
\* a call rejected by a disconnect or a timeout is never sent again when a
\* later connection opens; frames already sent are never changed.
C31_NoCallResent ==
    [][Len(sent') >= Len(sent)
       /\ SubSeq(sent', 1, Len(sent)) = sent
       /\ (Len(sent') > Len(sent) =>
              /\ Len(sent') = Len(sent) + 1
              /\ Len(settled') = Len(settled) + 1
              /\ sent'[Len(sent')].id = nextId
              /\ settled'[Len(settled')].id = nextId
              /\ sent'[Len(sent')].sock = socket
              /\ \A k \in 1..Len(sent) : sent[k].id # nextId)]_vars

\* C31, executor half: no step index has more than one backend invocation.
C31_StepDispatchedOnce ==
    \A c, d \in 1..Len(calls) : calls[c].index = calls[d].index => c = d

\* The request of call 1 went out on socket 1 and was rejected when the
\* connection was lost; a second connection is open and carries no frame.
C31_Witness ==
    /\ Len(sockets) = 2 /\ sockets[2] = "OPEN" /\ status = "connected"
    /\ sent = <<[sock |-> 1, id |-> 1]>>
    /\ Len(settled) = 1
    /\ settled[1].outcomes = <<Rejected(DisconnectedMessage)>>

(***************************************************************************)
(* Properties of the page-lifecycle and extension tools                    *)
(***************************************************************************)
IsListPages(step) == Resolves(step) /\ LowerName(step) = "list_pages"
IsSelectPage(step) == Resolves(step) /\ LowerName(step) = "select_page"

\* The url-like arguments of the step that are present, in the order url,
\* pageUrl, page.
UrlLike(step) ==
    SelectSeq(<<ResolvedArg(step, "url"), ResolvedArg(step, "pageUrl"),
                ResolvedArg(step, "page")>>, Truthy)

\* The iteration awaits buildLocalPagesSummary and nothing else.
InvokesTabs ==
    /\ calls' = Append(calls, [index |-> index, kind |-> "tabs", action |-> EmptyObj,
                               tool |-> "list_pages", args |-> EmptyObj])
    /\ results' = results
    /\ pc' = "await"

\* C32: whatever the bridge status, list_pages is answered by the local tab
\* listing, and select_page navigates the run's tab to its url-like argument
\* (url, else pageUrl, else page) when one is present and fails with
\* select-page-missing-url, nothing invoked, when none is.
C32_PageToolsLocal ==
    [][/\ (Dispatching /\ IsListPages(CurStep)) => InvokesTabs
       /\ (Dispatching /\ IsSelectPage(CurStep)) =>
              IF UrlLike(CurStep) # <<>>
              THEN InvokesLocal([type |-> "NAVIGATE", url |-> UrlLike(CurStep)[1],
                                 tabId |-> tabId])
              ELSE FailsWith("select-page-missing-url")]_vars

\* C32, the part that holds: neither tool ever reaches the bridge, and the
\* only local action select_page produces is a NAVIGATE of the run's tab.
C32_PageToolsNeverBridge ==
    [][(Dispatching /\ (IsListPages(CurStep) \/ IsSelectPage(CurStep))) =>
           \/ InvokesTabs /\ IsListPages(CurStep)
           \/ FailsWith("select-page-missing-url") /\ IsSelectPage(CurStep)
           \/ /\ IsSelectPage(CurStep)
              /\ \E u \in {UrlLike(CurStep)[k] : k \in 1..Len(UrlLike(CurStep))} :
                     InvokesLocal([type |-> "NAVIGATE", url |-> u, tabId |-> tabId])]_vars

\* The names click, fill, evaluate that occur in the step's lower-cased tool name.
Sniffed(step) == {w \in {"click", "fill", "evaluate"} : Includes(LowerName(step), w)}

\* An extension_* tool named after exactly one of click, fill, evaluate.
IsExtension(step, w) ==
    /\ Resolves(step)
    /\ StartsWith(LowerName(step), "extension_")
    /\ ~Includes(LowerName(step), "select_page")
    /\ Sniffed(step) = {w}

\* The iteration invokes the local backend with an action of this type that
\* carries `val` under `key` and the run's tab.
InvokesLocalOf(type, key, val) ==
    /\ Len(calls') = Len(calls) + 1
    /\ SubSeq(calls', 1, Len(calls)) = calls
    /\ LET c == calls'[Len(calls')]
       IN /\ c.index = index /\ c.kind = "local"
          /\ Get(c.action, "type") = type
          /\ Get(c.action, key) = val
          /\ Get(c.action, "tabId") = tabId
    /\ results' = results
    /\ pc' = "await"

\* The iteration forwards the resolved call to the bridge, or fails when the
\* bridge is not connected.
Forwarded ==
    IF status = "connected"
    THEN InvokesBridge(Resolve(CurStep).toolName, Resolve(CurStep).toolArgs)
    ELSE FailsWith("mcp-bridge-not-connected")

\* C33: an extension_* tool named after click, fill or evaluate runs the local
\* CLICK, FILL or EVALUATE_SCRIPT action, with the given selector, selector or
\* code and the run's tab, exactly when that argument is present (non-empty);
\* otherwise it is forwarded to the bridge, which fails with
\* mcp-bridge-not-connected and invokes nothing when the bridge is not connected.
C33_ExtensionToolsByArgument ==
    [][/\ (Dispatching /\ IsExtension(CurStep, "click")) =>
              IF Truthy(ResolvedArg(CurStep, "selector"))
              THEN InvokesLocalOf("CLICK", "selector", ResolvedArg(CurStep, "selector"))
              ELSE Forwarded
       /\ (Dispatching /\ IsExtension(CurStep, "fill")) =>
              IF Truthy(ResolvedArg(CurStep, "selector"))
              THEN InvokesLocalOf("FILL", "selector", ResolvedArg(CurStep, "selector"))
              ELSE Forwarded
       /\ (Dispatching /\ IsExtension(CurStep, "evaluate")) =>
              IF Truthy(ResolvedArg(CurStep, "code"))
              THEN InvokesLocalOf("EVALUATE_SCRIPT", "code", ResolvedArg(CurStep, "code"))
              ELSE Forwarded]_vars

\* An extension click tool without selector was forwarded to the connected
\* bridge, and the run ended.
C33_Witness ==
    /\ Len(plan) = 1 /\ IsExtension(plan[1], "click")
    /\ Falsy(ResolvedArg(plan[1], "selector"))
    /\ Len(calls) = 1 /\ calls[1].kind = "bridge" /\ calls[1].tool = "extension_click"
    /\ pc = "done"

(***************************************************************************)
(* Properties of the result check and of the warnings                      *)
(***************************************************************************)
\* The result carries an error flag.
Flagged(rp) ==
    /\ rp.kind = "return" /\ rp.defined
    /\ (Truthy(Get(rp.value, "isError")) \/ Get(rp.value, "success") = JFalse)

\* The text of the first part of the content that has a text; UNDEF when no
\* part has one.
FirstText(rp) ==
    LET at == {k \in 1..Len(rp.content) : IsString(rp.content[k].text)}
    IN IF at = {} THEN UNDEF
       ELSE rp.content[CHOOSE k \in at : \A m \in at : k <= m].text

\* The message the stated precedence picks for a flagged result.
MostSpecific(rp) ==
    IF Truthy(FirstText(rp)) THEN FirstText(rp)
    ELSE IF Truthy(Get(rp.value, "error")) THEN rp.value["error"]
    ELSE IF Truthy(Get(rp.value, "message")) THEN rp.value["message"]
    ELSE "CALL_TOOL failed"

\* C34: a CALL_TOOL step whose awaited result carries an error flag (isError,
\* or success:false) is recorded as failed, with a `failed` and no `completed`
\* event, and its error is the first text part of the content, else the error
\* field, else the message field, else the generic message.
C34_FlaggedResultFails ==
    \A k \in 1..Len(replies) :
        LET i == replies[k].index
            rp == replies[k].reply
        IN (plan[i + 1].type = "CALL_TOOL" /\ Flagged(rp)) =>
               /\ ~results[i + 1].success
               /\ results[i + 1].error = MostSpecific(rp)
               /\ Count("failed", i) = 1 /\ Count("completed", i) = 0

\* A bridge result flagged isError whose first text part is empty failed
\* with its error field, and a second step was never started.
C34_Witness ==
    /\ Len(plan) = 2 /\ Len(replies) = 1
    /\ calls[1].kind = "bridge"
    /\ Flagged(replies[1].reply) /\ FirstText(replies[1].reply) = ""
    /\ results = <<[success |-> FALSE, error |-> "err-field", result |-> NoResult]>>

\* The code infers a tool for the step: no name under the keys it reads, and
\* a parameter shape one of the rules applies to.
InferenceFires(step) ==
    step.type = "CALL_TOOL" /\ Falsy(ToolNameOf(step)) /\ InferTool(step).name # UNDEF

\* The warnings of step i that announce an inferred tool.
InferenceWarnings(i) ==
    {w \in 1..Len(warnings) : warnings[w].index = i - 1 /\ warnings[w].inferredTool # UNDEF}

\* C35: an attempted step for which a tool is inferred has exactly one warning
\* that announces a tool; it carries the inferred name and the step as given,
\* and it was sent before any backend invocation of that step; a step that
\* names its tool, a step no rule applies to and a primitive step have none.
C35_InferenceWarned ==
    \A i \in 1..Len(plan) :
        Attempted(i) =>
            IF InferenceFires(plan[i])
            THEN /\ Cardinality(InferenceWarnings(i)) = 1
                 /\ \A w \in InferenceWarnings(i) :
                        /\ warnings[w].inferredTool = InferTool(plan[i]).name
                        /\ warnings[w].step = plan[i]
                        /\ \A c \in 1..Len(calls) :
                               calls[c].index = i - 1 => c > warnings[w].calls
            ELSE InferenceWarnings(i) = {}

\* The second step of a plan had its tool inferred from a selector and a
\* value; it was announced once, after the first step's invocation and before
\* its own.
C35_Witness ==
    /\ Len(plan) = 2 /\ InferenceFires(plan[2])
    /\ Len(calls) = 2 /\ calls[2].index = 1
    /\ Len(warnings) = 1 /\ warnings[1].calls = 1
    /\ warnings[1].inferredTool = "extension_fill_selector"

(***************************************************************************)
(* Properties of the bridge's reconnection                                 *)
(***************************************************************************)
\* Socket s was replaced: it is not the current socket, a current socket
\* exists, and the close event of s is still to come.
Superseded(s) == socket # 0 /\ s # socket /\ sockets[s] = "CLOSING"

\* C38: the close event of a superseded socket leaves the new connection as
\* it is: the same current socket in the same ready state, the same status,
\* the same pending calls with no new outcome, no reconnect timer scheduled.
C38_SupersededCloseIgnored ==
    \A s \in 1..Len(sockets) :
        Superseded(s) =>
            LET b == OnClose([Enter(BridgeState) EXCEPT !.sockets[s] = "CLOSED"])
            IN /\ b.socket = socket
               /\ b.sockets[socket] = sockets[socket]
               /\ b.status = status
               /\ b.pending = pending
               /\ b.settled = settled
               /\ b.reconnectTimer = reconnectTimer

\* The bridge has an endpoint and no socket.
Down == url # JNull /\ socket = 0

\* The handler that produced b started a connection attempt: it announced
\* `connecting`.
StartsAttempt(b) ==
    \E k \in 1..Len(b.trace) : b.trace[k].ev = "status" /\ b.trace[k].arg = "connecting"

\* C39: between handlers a bridge with an endpoint and no socket always has
\* its reconnect timer set, with a live timeout; and when that timeout is
\* delivered a connection attempt starts, which leaves the bridge with a
\* socket or, the construction having failed, with a timeout pending again.
C39_NeverStuckDown ==
    Down =>
        /\ reconnectTimer /\ reconnectTimeouts > 0
        /\ \A ctorThrows \in BOOLEAN :
               LET b == OnReconnectTimer(Enter(BridgeState), ctorThrows)
               IN /\ StartsAttempt(b)
                  /\ IF ctorThrows
                     THEN b.socket = 0 /\ b.reconnectTimer /\ b.reconnectTimeouts > 0
                     ELSE b.socket # 0 /\ b.sockets[b.socket] = "CONNECTING"

\* A construction failure left the bridge down with its timer set, after it
\* had announced `connecting` and `disconnected`.
C39_Witness ==
    /\ Down /\ reconnectTimer /\ sockets = <<>>
    /\ Len(trace) = 2 /\ trace[1].arg = "connecting" /\ trace[2].arg = "disconnected"

(***************************************************************************)
(* Properties of MCPClient.handleAction                                    *)
(***************************************************************************)
FailureWith(message) == Return([success |-> JFalse, error |-> message])

\* The call returned a result object: { success: true, ... } or
\* { success: false, error } with an error text.
ResultShaped(reply) ==
    /\ reply.kind = "return" /\ reply.defined
    /\ Get(reply.value, "success") \in {JTrue, JFalse}
    /\ Get(reply.value, "success") = JFalse =>
           IsString(Get(reply.value, "error")) /\ Get(reply.value, "error") # ""

\* The one-step summary used by the executor yields exactly what the steps yield.
SummaryAgrees ==
    (clientPc = "settled" /\ clientAction.isObject) =>
        clientResult \in {HandleAction(clientAction.fields, env) : env \in ChromeBehaviours}

\* C36: handleAction never throws or rejects; whatever the action and however
\* chrome.* and the content script fail, it returns { success: true, ... } or
\* { success: false, error }.  A CLICK, FILL or EVALUATE_SCRIPT action without
\* a numeric tabId yields `tab-id-required`, and an action whose type is not
\* one of the five supported ones yields `unknown-action:<type>`.
C36_HandleActionNeverThrows ==
    /\ clientResult.kind # "throw"
    /\ clientPc = "settled" =>
        LET type == Get(clientAction.fields, "type")
        IN /\ ResultShaped(clientResult)
           /\ (/\ clientAction.isObject /\ type \in ContentTypes
               /\ ~IsNumber(Get(clientAction.fields, "tabId")))
                  => clientResult = FailureWith("tab-id-required")
           /\ (clientAction.isObject /\ type \notin SupportedTypes)
                  => clientResult = FailureWith("unknown-action:" \o JSString(type))

\* A CLICK whose tabId is a string was refused with tab-id-required.
C36_Witness ==
    /\ clientPc = "settled"
    /\ clientAction.fields = [type |-> "CLICK", tabId |-> "tab"]
    /\ clientResult = FailureWith("tab-id-required")

\* Further cases of C36 that are reached: the navigation timeout of a FILL is
\* converted, an action without a type is reported as unknown-action:undefined,
\* and a call without an action object is converted too.
TimeoutConverted ==
    /\ clientPc = "settled" /\ Get(clientAction.fields, "type") = "FILL"
    /\ clientResult = FailureWith("navigation-timeout")
UntypedReported ==
    /\ clientPc = "settled" /\ clientAction.isObject
    /\ "type" \notin DOMAIN clientAction.fields
    /\ clientResult = FailureWith("unknown-action:undefined")
MissingActionConverted ==
    /\ clientPc = "settled" /\ ~clientAction.isObject
    /\ clientResult.kind = "return" /\ Get(clientResult.value, "success") = JFalse

(***************************************************************************)
(* Properties of the content script's element wait                         *)
(***************************************************************************)
Waits == contentType \in {"CLICK", "FILL"}
Responded == contentPc = "responded"
NotFound == [success |-> JFalse, error |-> "selector-not-found"]

\* The wait resolves at most once and answers at most once, and no timer or
\* observer outlives the answer.
ResolvesOnce ==
    /\ resolutions <= 1 /\ Len(responses) <= 1
    /\ Responded <=> Len(responses) = 1
    /\ (Waits /\ Responded) => (~observer /\ ~pollId /\ ~timeoutId)

\* The step that answers: not-found is answered by the timeout callback, when
\* the timeout has elapsed; any other answer is given in a step in which the
\* selector matches, and says what was done with the element.
AnswersFirstMatch ==
    [][(Waits /\ ~Responded /\ Responded') =>
          IF responses'[1] = NotFound
          THEN timeoutId /\ elapsed = TimeoutPolls
          ELSE /\ matches'
               /\ responses'[1] = IF contentType = "CLICK" \/ hasValue
                                   THEN [success |-> JTrue]
                                   ELSE [success |-> JFalse, error |-> "unsupported-element"]]_vars

\* Once the document is ready the wait ends within the timeout.
ReadyWaitTerminates == (Waits /\ IsReady(readyState)) ~> Responded

\* C37: a CLICK or FILL content action eventually answers, whatever the page
\* does (a document that never becomes ready and a selector that never
\* matches included), with the outcome of the first match or with
\* selector-not-found once the timeout has elapsed, and it answers exactly once.
C37_ElementWaitTerminates ==
    /\ []ResolvesOnce
    /\ AnswersFirstMatch
    /\ Waits ~> Responded

\* The action is parked in waitForDocumentReady with no timer set.
ParkedUnready ==
    /\ Waits /\ contentPc = "unready" /\ readyState = "loading"
    /\ ~timeoutId /\ ~pollId

\* The timeout ended a wait for a selector that never matched.
TimedOut == Waits /\ Responded /\ responses = <<NotFound>> /\ elapsed = TimeoutPolls

(***************************************************************************)
(* Properties of WebSocketServerTransport                                  *)
(***************************************************************************)
\* Client c was replaced: another client is the current socket and is open,
\* and the close event of c is still to come.
Replaced(c) ==
    /\ serverSocket # 0 /\ c # serverSocket
    /\ clients[serverSocket] = "OPEN"
    /\ clients[c] # "CLOSED"

\* C40: the close event of a replaced client leaves the most recent client as
\* the current socket, and a send() after it is delivered to that client.
C40_ReplacedCloseKeepsCurrent ==
    \A c \in 1..Len(clients) :
        Replaced(c) =>
            LET t == OnClientClose([TransportState EXCEPT !.clients[c] = "CLOSED"], c)
                u == Send(t, "m", FALSE)
            IN /\ t.socket = serverSocket
               /\ u.outbox = Append(outbox, [to |-> serverSocket, message |-> "m"])
               /\ u.sendResults = Append(sendResults, "resolved")

====
